---- MODULE Spec2Model ----
(***************************************************************************)
(* Model of the analytics layer of the research dashboard (dashboard.js):  *)
(* the filter pipeline (applyFilters), the co-authorship graph builder     *)
(* (computeCoauthorGraph), the home-country inference (computeHomeCountry),*)
(* the international-link classifier (computeIntlLinks) and its            *)
(* per-country drill-down (showCountryDetail), driven by update().         *)
(*                                                                         *)
(* JavaScript Maps and arrays are sequences (insertion order is kept),     *)
(* JavaScript Sets that are only tested or sorted are sets.  CSV cells are *)
(* strings; a pipe- or semicolon-separated cell is the sequence of its     *)
(* parts.                                                                  *)
(***************************************************************************)
EXTENDS Integers, Sequences, FiniteSets, TLC

VARIABLES
    rosterData,         \* faculty roster rows (after normalizeRoster)
    pubData,            \* dedup publication rows (after normalizePubsFor)
    authorshipData,     \* pre-dedup authorship rows, <<>> when the file is absent
    ui,                 \* DOM inputs: the four multi-selects, the year boxes, the topic box
    focusedAuthorID,    \* "" stands for null
    contributingRoster, \* applyFilters().contributingRoster of the last cycle
    selectedPubs,       \* applyFilters().selectedPubs of the last cycle
    graph,              \* computeCoauthorGraph result of the last cycle
    homeISO3,           \* window.__homeISO3
    intlSeries,         \* computeIntlLinks result of the last cycle
    countryDetail,      \* what showCountryDetail last reported
    perAuthorData,      \* per-author projection rows, <<>> when the file is absent
    timer,              \* the debounced topic-search update is pending
    rendered,           \* an update() cycle has completed
    partners,           \* what drawTopRORPartners last drew: home ROR and ranked rows
    embedding,          \* what drawAuthorTopicPCA last drew
    loadError,          \* the catch handler of the load promise has run
    activeTypes,        \* publication types shown in the list; NullTypes stands for null
    pubsForList,        \* the rows update() last handed to drawPublicationList
    firstUpdate         \* the filter state and the lists right after the first update()

vars == <<rosterData, pubData, authorshipData, ui, focusedAuthorID,
          contributingRoster, selectedPubs, graph, homeISO3, intlSeries,
          countryDetail, perAuthorData, timer, rendered, partners, embedding,
          loadError, activeTypes, pubsForList, firstUpdate>>

----------------------------------------------------------------------------
(* Bounds of the model *)

MaxWorks == 2       \* works W1..Wn of the graph-builder inputs
MaxAuth == 2        \* authorships of the single publication of the classifier inputs
MaxIntlPubs == 3    \* publications in a drawn list of the classifier inputs
MaxPubRows == 3     \* rows of the publication file of the event machine
MaxFocusPubs == 2   \* rows of a drawn file of the focused filter

----------------------------------------------------------------------------
(* Generic helpers over sequences *)

Range(s) == {s[i] : i \in DOMAIN s}

RECURSIVE SeqFilter(_, _)
\* Array.prototype.filter with the membership test "index is in keep"
SeqFilter(s, keep) ==
    IF s = <<>> THEN <<>>
    ELSE LET n == Len(s)
             front == SeqFilter(SubSeq(s, 1, n - 1), keep)
         IN IF n \in keep THEN Append(front, s[n]) ELSE front

RECURSIVE Flatten(_)
Flatten(ss) ==
    IF ss = <<>> THEN <<>> ELSE Head(ss) \o Flatten(Tail(ss))

RECURSIVE Dedup(_)
\* first occurrences, in order (what adding to a JS Set / Map keeps)
Dedup(s) ==
    IF s = <<>> THEN <<>>
    ELSE LET n == Len(s)
             front == Dedup(SubSeq(s, 1, n - 1))
         IN IF s[n] \in Range(front) THEN front ELSE Append(front, s[n])

RECURSIVE SumSeq(_)
SumSeq(s) == IF s = <<>> THEN 0 ELSE Head(s) + SumSeq(Tail(s))

\* all sequences over S of length at most n
SeqsUpTo(S, n) == UNION {[1..k -> S] : k \in 0..n}

----------------------------------------------------------------------------
(* Identifiers.  OpenAlex ids arrive bare or as URLs; normalizeID, idNorm   *)
(* and workNorm strip the URL prefix.  The universe of raw id strings:      *)

UrlOf == [u \in {"https://openalex.org/A2", "https://openalex.org/W2"} |->
             IF u = "https://openalex.org/A2" THEN "A2" ELSE "W2"]

\* String(id || '').replace(/^https?:\/\/openalex\.org\/.../i, '').trim()
normalizeID(id) == IF id \in DOMAIN UrlOf THEN UrlOf[id] ELSE id

\* JS default sort / comparison of the id strings of the universe
IdOrder == <<"A1", "A2", "A3", "X9">>
IdRank(id) == CHOOSE i \in DOMAIN IdOrder : IdOrder[i] = id

RECURSIVE SortIds(_)
\* Array.from(set).sort()
SortIds(S) ==
    IF S = {} THEN <<>>
    ELSE LET m == CHOOSE x \in S : \A y \in S : IdRank(x) <= IdRank(y)
         IN <<m>> \o SortIds(S \ {m})

----------------------------------------------------------------------------
(* Author names.  A raw name is what is left of it after stripDiacritics,  *)
(* toLowerCase and the punctuation-to-space replacements of canonName: the *)
(* word tokens before the first comma (pre) and after it (post).           *)

Name(pre, post) == [pre |-> pre, post |-> post]

\* first[0] over the tokens of the universe
Initial(tok) ==
    CASE tok \in {"ann", "al", "a"} -> "a"
      [] tok = "bob" -> "b"
      [] tok = "cy" -> "c"
      [] tok = "lee" -> "l"
      [] tok = "van" -> "v"
      [] tok = "dyk" -> "d"
      [] tok = "roe" -> "r"
      [] OTHER -> "j"

Suffixes == {"jr", "sr", "iii", "ii"}
Particles == {"de", "del", "della", "der", "den", "van", "von", "da", "di", "dos",
              "la", "le", "mac", "mc", "bin", "al", "ibn", "st"}

RECURSIVE DropSuffixes(_)
\* while (parts.length>1 && suff.has(parts.at(-1))) parts.pop()
DropSuffixes(parts) ==
    IF Len(parts) > 1 /\ parts[Len(parts)] \in Suffixes
    THEN DropSuffixes(SubSeq(parts, 1, Len(parts) - 1))
    ELSE parts

\* canonName: the canonical key as the sequence of its space-separated tokens.
\* "Last, First" becomes "First Last"; a one-word name is its own key; otherwise
\* the key is the first initial and the last name (with a surname particle).
\* (A name without any letter makes the code throw; no such name is modelled.)
canonName(raw) ==
    LET parts0 == IF raw.pre # <<>> /\ raw.post # <<>>
                  THEN raw.post \o raw.pre
                  ELSE raw.pre \o raw.post
    IN IF Len(parts0) = 1 THEN parts0
       ELSE LET parts == DropSuffixes(parts0)
                n == Len(parts)
                last == IF n >= 3 /\ parts[n - 1] \in Particles
                        THEN <<parts[n - 1], parts[n]>>
                        ELSE <<parts[n]>>
            IN <<Initial(parts[1])>> \o last

\* splitAuthorsList: the ";"-separated names of the cell, empty ones dropped
splitAuthorsList(cell) ==
    SeqFilter(cell, {i \in DOMAIN cell : cell[i].pre \o cell[i].post # <<>>})

----------------------------------------------------------------------------
(* Records *)

\* a roster row after normalizeRoster; RGs is r._RGs
RosterRow(id, name, level, cat, appt, rgs) ==
    [OpenAlexID |-> id, Name |-> name, Level |-> level, Category |-> cat,
     Appointment |-> appt, RGs |-> rgs]

\* a publication row; the pipe-separated cells (the three authorships__ cells
\* and cohort_union_author_ids) are kept as the sequences of their parts, the
\* title display_name as the sequence of its words and _topic_haystack as the
\* set of its words.  A part of an authorships__institutions__ cell is the
\* sequence of its ";"-separated items; concepts_list is the sequence of its
\* delimited items.
PubRow(id, rep, year, authors, aids, actry, apos) ==
    [id |-> id, doi |-> "", display_name |-> <<>>, author_openalex_id |-> rep,
     publication_year |-> year, authors |-> authors, cohort_union_author_ids |-> <<>>,
     authorships_author_id |-> aids, authorships_countries |-> actry,
     authorships_author_position |-> apos, topic_haystack |-> {},
     authorships_author_display_name |-> <<>>, authorships_raw_author_name |-> <<>>,
     authorships_is_corresponding |-> <<>>, authorships_institutions_ror |-> <<>>,
     authorships_institutions_display_name |-> <<>>,
     authorships_institutions_country_code |-> <<>>,
     primary_topic_display_name |-> "", primary_topic_subfield_display_name |-> "",
     concepts_list |-> <<>>, type |-> "", type_norm |-> ""]

\* a row of the pre-dedup authorship file
AuthorshipRow(wid, aid) == [id |-> wid, author_openalex_id |-> aid]

----------------------------------------------------------------------------
(* Co-authorship graph builder *)

\* idNorm / workNorm of computeCoauthorGraph
idNorm(s) == normalizeID(s)
workNorm(s) == normalizeID(s)
widOf(p) == workNorm(p.id)

\* nameOf: roster id -> display name, as the set of its keys
NameOfKeys(roster) == {idNorm(roster[i].OpenAlexID) : i \in DOMAIN roster}

\* selectedWorkIDs
SelectedWorkIDs(pubs) == {widOf(pubs[i]) : i \in DOMAIN pubs} \ {""}

\* byWork of the kept rows: one entry per work id, in insertion order, with
\* the author ids of its rows
WorksOfRows(kept) ==
    LET wids == Dedup([i \in DOMAIN kept |-> workNorm(kept[i].id)])
    IN [k \in DOMAIN wids |->
          [wid |-> wids[k],
           ids |-> {idNorm(kept[i].author_openalex_id) :
                       i \in {j \in DOMAIN kept : workNorm(kept[j].id) = wids[k]}}]]

\* ByWorkPreferred without the "only cohort authors" test
ByWorkPreferredAnyAuthor(roster, pubs, rows) ==
    WorksOfRows(SeqFilter(rows, {i \in DOMAIN rows :
                                   workNorm(rows[i].id) \in SelectedWorkIDs(pubs)}))

\* Preferred path: byWork as a Map in insertion order, entries [wid, ids]
ByWorkPreferred(roster, pubs, rows) ==
    WorksOfRows(SeqFilter(rows, {i \in DOMAIN rows :
        /\ workNorm(rows[i].id) \in SelectedWorkIDs(pubs)
        /\ idNorm(rows[i].author_openalex_id) \in NameOfKeys(roster)}))

\* Fallback path: roster ids whose canonical name equals that of a listed author
IdsOfNames(roster, names) ==
    {idNorm(roster[i].OpenAlexID) :
       i \in {j \in DOMAIN roster :
                \E n \in DOMAIN names : canonName(names[n]) = canonName(roster[j].Name)}}

IdsOnWork(roster, p) == IdsOfNames(roster, splitAuthorsList(p.authors))

\* byWork.set(wid, idsOnWork) for every publication with a work id and at least
\* two matched roster ids; a later row of the same work replaces the set but
\* keeps the entry's place
FallbackOfRows(roster, kept) ==
    LET wids == Dedup([i \in DOMAIN kept |-> widOf(kept[i])])
        lastOf(w) == CHOOSE i \in DOMAIN kept :
                        /\ widOf(kept[i]) = w
                        /\ \A j \in DOMAIN kept : widOf(kept[j]) = w => j <= i
    IN [k \in DOMAIN wids |->
          [wid |-> wids[k], ids |-> IdsOnWork(roster, kept[lastOf(wids[k])])]]

ByWorkFallback(roster, pubs) ==
    FallbackOfRows(roster, SeqFilter(pubs, {i \in DOMAIN pubs :
        widOf(pubs[i]) # "" /\ Cardinality(IdsOnWork(roster, pubs[i])) >= 2}))

\* the work -> cohort ids map handed to buildGraphFromPairs
ByWork(roster, pubs, rows) ==
    IF rows # <<>> THEN ByWorkPreferred(roster, pubs, rows)
    ELSE ByWorkFallback(roster, pubs)

\* widToPub: the first selected row of each work id
widToPub(pubs, w) ==
    pubs[CHOOSE i \in DOMAIN pubs :
            widOf(pubs[i]) = w /\ \A j \in DOMAIN pubs : widOf(pubs[j]) = w => i <= j]

\* PairsOfWork pairing only neighbours of the sorted ids
PairsOfWorkAdjacent(ids) ==
    LET s == SortIds(ids)
    IN [i \in 1..(Len(s) - 1) |-> <<s[i], s[i + 1]>>]

\* the (a, b) pairs of one work, i < j over the sorted ids
PairsOfWork(ids) ==
    LET s == SortIds(ids)
        n == Len(s)
        RECURSIVE row(_, _)
        row(i, j) == IF i >= n THEN <<>>
                     ELSE IF j > n THEN row(i + 1, i + 2)
                     ELSE <<<<s[i], s[j]>>>> \o row(i, j + 1)
    IN row(1, 2)

\* every (key, wid) increment in loop order
PairOccurrences(byWork) ==
    Flatten([k \in DOMAIN byWork |->
               LET ps == PairsOfWork(byWork[k].ids)
               IN [i \in DOMAIN ps |-> [key |-> ps[i], wid |-> byWork[k].wid]]])

\* uniqPubs: the pair's rows, one per work id, rows without a work id skipped
UniqPubs(rows) ==
    LET withId == SeqFilter(rows, {i \in DOMAIN rows : widOf(rows[i]) # ""})
    IN SeqFilter(withId, {i \in DOMAIN withId :
                            \A j \in 1..(i - 1) : widOf(withId[j]) # widOf(withId[i])})

\* pairCounts.keys(): the distinct pair keys in insertion order
PairKeys(occ) == Dedup([i \in DOMAIN occ |-> occ[i].key])

\* pairCounts.get(key)
PairCount(occ, key) == Cardinality({i \in DOMAIN occ : occ[i].key = key})

\* pairPubs.get(key): widToPub.get(wid) pushed once per increment
PairPubs(occ, pubs, key) ==
    LET mine == SeqFilter(occ, {i \in DOMAIN occ : occ[i].key = key})
    IN [i \in DOMAIN mine |-> widToPub(pubs, mine[i].wid)]

\* nodeIDs: both ends of every key, added to a Set in key order
NodeIDs(keys) == Dedup(Flatten([i \in DOMAIN keys |-> keys[i]]))

\* EdgeDegree counting incident edges instead of adding their counts
EdgeDegreeUnweighted(edges, id) ==
    Cardinality({i \in DOMAIN edges : edges[i].a = id \/ edges[i].b = id})

\* degree: every edge adds its count to both of its ends
EdgeDegree(edges, id) ==
    SumSeq([i \in DOMAIN edges |->
              (IF edges[i].a = id THEN edges[i].count ELSE 0)
            + (IF edges[i].b = id THEN edges[i].count ELSE 0)])

\* nodes: one per end of a pair key, with its degree over the edges
GraphOfEdges(keys, edges) ==
    LET nodeIDs == NodeIDs(keys)
    IN [nodes |-> [i \in DOMAIN nodeIDs |->
                     [id |-> nodeIDs[i], deg |-> EdgeDegree(edges, nodeIDs[i])]],
        edges |-> edges]

\* edges: one per pair key of the increments, with its count and publications
GraphOfOccurrences(occ, pubs) ==
    LET keys == PairKeys(occ)
    IN GraphOfEdges(keys,
          [i \in DOMAIN keys |->
             [a |-> keys[i][1], b |-> keys[i][2],
              count |-> PairCount(occ, keys[i]),
              pubs |-> UniqPubs(PairPubs(occ, pubs, keys[i]))]])

buildGraphFromPairs(byWork, pubs) == GraphOfOccurrences(PairOccurrences(byWork), pubs)

computeCoauthorGraph(roster, pubs, rows) ==
    buildGraphFromPairs(ByWork(roster, pubs, rows), pubs)

----------------------------------------------------------------------------
(* Authorship arrays of a publication row *)

\* splitPipe: '' gives [], anything else its pipe-separated parts.  A cell is
\* modelled by its parts, so the empty cell is <<>> or the single empty part.
splitPipe(cell) == IF cell = <<"">> THEN <<>> ELSE cell

ISO2_TO_3 == [c \in {"US", "CA", "GB", "FR"} |->
                CASE c = "US" -> "USA" [] c = "CA" -> "CAN" [] c = "GB" -> "GBR"
                  [] OTHER -> "FRA"]

\* the raw codes of the universe with c.length === 3
ThreeLetterCodes == {"USA", "CAN", "GBR", "FRA"}

\* toISO3: '' for an empty code, a 3-letter code as it is, a mapped 2-letter
\* code translated, anything else ''
toISO3(code) ==
    IF code = "" THEN ""
    ELSE IF code \in ThreeLetterCodes THEN code
    ELSE IF code \in DOMAIN ISO2_TO_3 THEN ISO2_TO_3[code]
    ELSE ""

\* s.replace(/^https?:\/\/openalex\.org\/authors\//i, ''): only the /authors/
\* form of the URL is stripped
stripAuthorsPrefix(id) ==
    IF id = "https://openalex.org/authors/A2" THEN "A2" ELSE id

\* String(x).toLowerCase() over the position strings of the universe
toLowerCase(str) == IF str = "First" THEN "first" ELSE str

\* splitPipe of a cell whose parts are ";"-separated lists
splitPipeOfLists(cell) == IF cell = << <<"">> >> THEN <<>> ELSE cell

\* firstFromSemicolon: String(cell).split(';')[0]
firstFromSemicolon(part) == part[1]

\* replace(/^https?:\/\/ror\.org\//i, '') over the ROR strings of the universe
stripRorPrefix(r) == IF r = "https://ror.org/R1" THEN "R1" ELSE r

\* toUpperCase over the country codes of the universe
toUpperCase(c) == IF c = "fr" THEN "FR" ELSE c

\* the corresponding flag as a boolean
isCorrespondingFlag(x) == x \in {"true", "True", "1", "yes", "y"}

\* pad leaving an array longer than n as it is
padKeepLonger(arr, n, fill) ==
    IF Len(arr) >= n THEN arr
    ELSE [i \in 1..n |-> IF i <= Len(arr) THEN arr[i] ELSE fill]

\* pad: an array of another length than n is rebuilt with n entries, arr[i] ?? fill
pad(arr, n, fill) ==
    IF Len(arr) = n THEN arr
    ELSE [i \in 1..n |-> IF i <= Len(arr) THEN arr[i] ELSE fill]

\* the arrays of parseAuthorships before they are padded
mappedAuthorships(pub) ==
    LET raw == splitPipe(pub.authorships_countries)
        rawIds == splitPipe(pub.authorships_author_id)
        display == splitPipe(pub.authorships_author_display_name)
        corresRaw == splitPipe(pub.authorships_is_corresponding)
        instRorRaw == splitPipeOfLists(pub.authorships_institutions_ror)
        instNameRaw == splitPipeOfLists(pub.authorships_institutions_display_name)
        instCtryRaw == splitPipeOfLists(pub.authorships_institutions_country_code)
    IN [countries |-> [i \in DOMAIN raw |-> toISO3(raw[i])],
        ids |-> [i \in DOMAIN rawIds |-> stripAuthorsPrefix(rawIds[i])],
        names |-> IF display # <<>> THEN display
                  ELSE splitPipe(pub.authorships_raw_author_name),
        isCorresponding |-> [i \in DOMAIN corresRaw |-> isCorrespondingFlag(corresRaw[i])],
        position |-> splitPipe(pub.authorships_author_position),
        instRor |-> [i \in DOMAIN instRorRaw |->
                        stripRorPrefix(firstFromSemicolon(instRorRaw[i]))],
        instName |-> [i \in DOMAIN instNameRaw |-> firstFromSemicolon(instNameRaw[i])],
        instCountry3 |-> [i \in DOMAIN instCtryRaw |->
                             toISO3(toUpperCase(firstFromSemicolon(instCtryRaw[i])))]]

\* the return value of parseAuthorships: every array padded to the length of
\* the countries array
alignedAuthorships(m) ==
    LET n == Len(m.countries)
    IN
    [countries |-> m.countries,
     ids |-> pad(m.ids, n, ""),
     names |-> pad(m.names, n, ""),
     isCorresponding |-> pad(m.isCorresponding, n, FALSE),
     position |-> pad(m.position, n, ""),
     instRor |-> pad(m.instRor, n, ""),
     instName |-> pad(m.instName, n, ""),
     instCountry3 |-> pad(m.instCountry3, n, "")]

parseAuthorships(pub) == alignedAuthorships(mappedAuthorships(pub))

\* cohortIDs of computeHomeCountry / computeIntlLinks / showCountryDetail
CohortIDs(roster) == {stripAuthorsPrefix(roster[i].OpenAlexID) : i \in DOMAIN roster}

----------------------------------------------------------------------------
(* Home country *)

\* the countries tallied, one entry per counted authorship, in loop order
CountedCountries(a, cohort) ==
    SeqFilter(a.countries,
              {i \in DOMAIN a.ids :
                  /\ a.ids[i] # "" /\ a.countries[i] # ""
                  /\ a.ids[i] \in cohort})

TalliedCountries(roster, pubs) ==
    Flatten([k \in DOMAIN pubs |->
               CountedCountries(parseAuthorships(pubs[k]), CohortIDs(roster))])

\* tallies.get(k)
TallyOf(tallied, k) == Cardinality({i \in DOMAIN tallied : tallied[i] = k})

RECURSIVE BestTallyLast(_, _, _, _, _)
\* BestTally with "n >= bestN": the last of the maximal entries wins
BestTallyLast(keys, tallied, i, best, bestN) ==
    IF i > Len(keys) THEN best
    ELSE IF TallyOf(tallied, keys[i]) >= bestN
         THEN BestTallyLast(keys, tallied, i + 1, keys[i], TallyOf(tallied, keys[i]))
         ELSE BestTallyLast(keys, tallied, i + 1, best, bestN)

RECURSIVE BestTally(_, _, _, _, _)
\* for (const [k, n] of tallies.entries()) if (n > bestN) { best = k; bestN = n; }
BestTally(keys, tallied, i, best, bestN) ==
    IF i > Len(keys) THEN best
    ELSE IF TallyOf(tallied, keys[i]) > bestN
         THEN BestTally(keys, tallied, i + 1, keys[i], TallyOf(tallied, keys[i]))
         ELSE BestTally(keys, tallied, i + 1, best, bestN)

\* computeHomeCountry from the tallies on
HomeOfTallied(tallied) ==
    LET keys == Dedup(tallied)                      \* tallies.keys()
    IN IF keys = <<>> THEN "CAN"
       ELSE LET best == BestTally(keys, tallied, 1, "", -1)
            IN IF best = "" THEN "CAN" ELSE best

computeHomeCountry(roster, pubs) == HomeOfTallied(TalliedCountries(roster, pubs))

----------------------------------------------------------------------------
(* International links *)

isCohort(a, i, cohort) == a.ids[i] # "" /\ a.ids[i] \in cohort
isIntl(a, i, home) == a.countries[i] # "" /\ home # "" /\ a.countries[i] # home

\* isFL recognising "first" only
isFLFirstOnly(pos) == pos = "first"

isFL(pos) == pos = "first" \/ pos = "last"

cohortIdx_FL(a, cohort) ==
    SeqFilter([i \in DOMAIN a.ids |-> i],
              {i \in DOMAIN a.ids : isCohort(a, i, cohort) /\ isFL(toLowerCase(a.position[i]))})
cohortIdx_M(a, cohort) ==
    SeqFilter([i \in DOMAIN a.ids |-> i],
              {i \in DOMAIN a.ids : /\ isCohort(a, i, cohort)
                                    /\ ~isFL(toLowerCase(a.position[i]))
                                    /\ toLowerCase(a.position[i]) = "middle"})
intlIdx_any(a, home) ==
    SeqFilter([i \in DOMAIN a.ids |-> i], {i \in DOMAIN a.ids : isIntl(a, i, home)})
intlIdx_FL(a, home) ==
    SeqFilter([i \in DOMAIN a.ids |-> i],
              {i \in DOMAIN a.ids : isIntl(a, i, home) /\ isFL(toLowerCase(a.position[i]))})

\* const iso = countries[j]; if (iso) creditedThisPaper.add(iso), for the rows js
CountriesAt(a, js) ==
    LET isos == [k \in DOMAIN js |-> a.countries[js[k]]]
    IN SeqFilter(isos, {k \in DOMAIN isos : isos[k] # ""})

\* Rule1Adds counting only the international rows of authors outside the cohort
Rule1AddsOthersOnly(a, cohort, home) ==
    IF cohortIdx_FL(a, cohort) # <<>>
          /\ \E i \in DOMAIN a.ids : isIntl(a, i, home) /\ ~isCohort(a, i, cohort)
    THEN CountriesAt(a, SeqFilter(intlIdx_any(a, home),
                                  {k \in DOMAIN intlIdx_any(a, home) :
                                      ~isCohort(a, intlIdx_any(a, home)[k], cohort)}))
    ELSE <<>>

\* the countries Rule 1 adds to creditedThisPaper, one per international row
Rule1Adds(a, cohort, home) ==
    IF cohortIdx_FL(a, cohort) # <<>> /\ intlIdx_any(a, home) # <<>>
    THEN CountriesAt(a, intlIdx_any(a, home))
    ELSE <<>>

\* Rule2Adds crediting the international rows of every position
Rule2AddsAnyPosition(a, cohort, home) ==
    IF cohortIdx_M(a, cohort) # <<>> /\ intlIdx_FL(a, home) # <<>>
    THEN CountriesAt(a, intlIdx_any(a, home))
    ELSE <<>>

\* the countries Rule 2 adds, one per international first/last row
Rule2Adds(a, cohort, home) ==
    IF cohortIdx_M(a, cohort) # <<>> /\ intlIdx_FL(a, home) # <<>>
    THEN CountriesAt(a, intlIdx_FL(a, home))
    ELSE <<>>

\* creditedThisPaper of the parsed authorships
creditedByRules(a, cohort, home) ==
    IF Len(a.ids) = 0 THEN {}
    ELSE Range(Rule1Adds(a, cohort, home)) \cup Range(Rule2Adds(a, cohort, home))

\* creditedThisPaper; a row without authorships is skipped
creditedThisPaper(p, cohort, home) ==
    creditedByRules(parseAuthorships(p), cohort, home)

TimesAdded(adds, iso) == Cardinality({i \in DOMAIN adds : adds[i] = iso})

AddsPerRow(a, cohort, home, iso) ==
    IF Len(a.ids) = 0 THEN 0
    ELSE TimesAdded(Rule1Adds(a, cohort, home) \o Rule2Adds(a, cohort, home), iso)

\* PaperTally adding one per crediting authorship row
PaperTallyPerRow(p, cohort, home, iso) ==
    AddsPerRow(parseAuthorships(p), cohort, home, iso)

\* what the paper adds to counts.get(iso)
PaperTally(p, cohort, home, iso) ==
    IF iso \in creditedThisPaper(p, cohort, home) THEN 1 ELSE 0

\* JS string order of the country codes of the universe
CountryOrder == <<"CAN", "FRA", "GBR", "USA">>
CountryRank(c) == CHOOSE i \in DOMAIN CountryOrder : CountryOrder[i] = c

RECURSIVE SortCountries(_)
\* Array.from(counts.keys()).sort()
SortCountries(S) ==
    IF S = {} THEN <<>>
    ELSE LET m == CHOOSE x \in S : \A y \in S : CountryRank(x) <= CountryRank(y)
         IN <<m>> \o SortCountries(S \ {m})

\* values = iso3.map(k => counts.get(k)) and their total
SeriesOfCountries(pubs, cohort, home, iso3) ==
    LET values == [i \in DOMAIN iso3 |->
                     SumSeq([k \in DOMAIN pubs |-> PaperTally(pubs[k], cohort, home, iso3[i])])]
    IN [iso3 |-> iso3, values |-> values, total |-> SumSeq(values)]

computeIntlLinks(pubs, roster, home) ==
    SeriesOfCountries(pubs, CohortIDs(roster), home,
        SortCountries(UNION {creditedThisPaper(pubs[k], CohortIDs(roster), home) :
                                k \in DOMAIN pubs}))

linkRule1OfAuthorships(a, cohort, home, iso3) ==
    LET tAny == SeqFilter([i \in DOMAIN a.ids |-> i],
                          {i \in DOMAIN a.ids : isIntl(a, i, home) /\ a.countries[i] = iso3})
    IN IF Len(a.ids) = 0 THEN [ok |-> FALSE, cohortInvolved |-> <<>>]
       ELSE IF cohortIdx_FL(a, cohort) # <<>> /\ tAny # <<>>
            THEN [ok |-> TRUE, cohortInvolved |-> cohortIdx_FL(a, cohort)]
       ELSE [ok |-> FALSE, cohortInvolved |-> <<>>]

\* the two rules on the parsed authorships, the international rows restricted
\* to the clicked country
linkOfAuthorships(a, cohort, home, iso3) ==
    LET tAny == SeqFilter([i \in DOMAIN a.ids |-> i],
                          {i \in DOMAIN a.ids : isIntl(a, i, home) /\ a.countries[i] = iso3})
        tFL == SeqFilter(tAny, {k \in DOMAIN tAny : isFL(toLowerCase(a.position[tAny[k]]))})
    IN IF Len(a.ids) = 0 THEN [ok |-> FALSE, cohortInvolved |-> <<>>]
       ELSE IF cohortIdx_FL(a, cohort) # <<>> /\ tAny # <<>>
            THEN [ok |-> TRUE, cohortInvolved |-> cohortIdx_FL(a, cohort)]
       ELSE IF cohortIdx_M(a, cohort) # <<>> /\ tFL # <<>>
            THEN [ok |-> TRUE, cohortInvolved |-> cohortIdx_M(a, cohort)]
       ELSE [ok |-> FALSE, cohortInvolved |-> <<>>]

\* paperGeneratesLinkToCountry dropping Rule 2
paperGeneratesLinkRule1Only(p, cohort, home, iso3) ==
    linkRule1OfAuthorships(parseAuthorships(p), cohort, home, iso3)

\* paperGeneratesLinkToCountry: the two rules with the international rows
\* restricted to the clicked country
paperGeneratesLinkToCountry(p, cohort, home, iso3) ==
    linkOfAuthorships(parseAuthorships(p), cohort, home, iso3)

\* a.names[i] || a.ids[i] for the rows of cohortIdx of a matched entry
HitNames(pubs, m) ==
    [j \in DOMAIN m.cohortIdx |->
        IF parseAuthorships(pubs[m.pub]).names[m.cohortIdx[j]] # ""
        THEN parseAuthorships(pubs[m.pub]).names[m.cohortIdx[j]]
        ELSE parseAuthorships(pubs[m.pub]).ids[m.cohortIdx[j]]]

\* authorHitCounts adding one per row of cohortIdx
authorHitCountsPerRow(pubs, matched) ==
    [nm \in UNION {Range(HitNames(pubs, matched[k])) : k \in DOMAIN matched} |->
        SumSeq([k \in DOMAIN matched |->
                  Cardinality({j \in DOMAIN matched[k].cohortIdx :
                                  HitNames(pubs, matched[k])[j] = nm})])]

\* authorHitCounts: per name, one for every matched publication whose
\* cohortIdx holds a row of that name (the set seen of the publication)
authorHitCounts(pubs, matched) ==
    [nm \in UNION {Range(HitNames(pubs, matched[k])) : k \in DOMAIN matched} |->
        Cardinality({k \in DOMAIN matched : nm \in Range(HitNames(pubs, matched[k]))})]

\* matched, as (index of the row in the selection, cohortIdx)
MatchedOf(pubs, cohort, home, iso3) ==
    LET res == [k \in DOMAIN pubs |-> paperGeneratesLinkToCountry(pubs[k], cohort, home, iso3)]
        hits == SeqFilter([k \in DOMAIN pubs |-> k], {k \in DOMAIN pubs : res[k].ok})
    IN [i \in DOMAIN hits |-> [pub |-> hits[i], cohortIdx |-> res[hits[i]].cohortInvolved]]

\* the panel of a clicked country: matched and the per-author counts
DetailOfMatched(pubs, iso3, matched) ==
    [iso3 |-> iso3, matched |-> matched, authorHitCounts |-> authorHitCounts(pubs, matched)]

\* showCountryDetail
showCountryDetail(pubs, roster, home, iso3) ==
    DetailOfMatched(pubs, iso3, MatchedOf(pubs, CohortIDs(roster), home, iso3))

----------------------------------------------------------------------------
(* Partner institutions *)

\* the RORs tallied for the home institution, one entry per cohort authorship
\* with an id and a first institution, in loop order
TalliedRors(cohort, auths) ==
    Flatten([k \in DOMAIN auths |->
               LET a == auths[k]
               IN SeqFilter(a.instRor,
                            {i \in DOMAIN a.ids :
                                /\ a.ids[i] # "" /\ a.instRor[i] # ""
                                /\ a.ids[i] \in cohort})])

\* homeROR: the first of the most tallied RORs, '' when nothing was tallied
inferHomeROR(cohort, auths) ==
    LET tallied == TalliedRors(cohort, auths)
    IN BestTally(Dedup(tallied), tallied, 1, "", 0)

\* CoauthorRors without the cohort author's own-institution rule
CoauthorRorsAnyOwn(a, i, homeROR) ==
    LET rors == [j \in DOMAIN a.ids |-> a.instRor[j]]
    IN SeqFilter(rors, {j \in DOMAIN rors :
                           /\ j # i
                           /\ rors[j] # ""
                           /\ ~(homeROR # "" /\ rors[j] = homeROR)})

\* the inner loop over j: the first institutions of the other authorship rows,
\* without the cohort author's own and without the home institution
CoauthorRors(a, i, homeROR) ==
    LET rors == [j \in DOMAIN a.ids |-> a.instRor[j]]
        ownRor == a.instRor[i]
    IN SeqFilter(rors, {j \in DOMAIN rors :
                           /\ j # i
                           /\ rors[j] # ""
                           /\ ~(ownRor # "" /\ rors[j] = ownRor)
                           /\ ~(homeROR # "" /\ rors[j] = homeROR)})

\* the additions to creditedThisCohort in loop order, one per (i, j) reached
CreditedAdds(a, cohort, homeROR) ==
    Flatten([i \in DOMAIN a.ids |->
               IF a.ids[i] \in cohort THEN CoauthorRors(a, i, homeROR) ELSE <<>>])

\* creditedThisCohort keeping one entry per cohort author that reached a ROR
creditedPerAuthor(a, cohort, homeROR) ==
    CreditedAdds(a, cohort, homeROR)

\* creditedThisCohort of a paper: a Set, in insertion order
creditedThisCohort(a, cohort, homeROR) ==
    Dedup(CreditedAdds(a, cohort, homeROR))

\* rec.n of a ROR: one per entry of a paper's creditedThisCohort
PartnerCount(credited, ror) ==
    SumSeq([k \in DOMAIN credited |->
              Cardinality({x \in DOMAIN credited[k] : credited[k][x] = ror})])

\* a.instName / a.instCountry3 at findIndex(x => x === ror), '' when absent
MetaAt(a, field, ror) ==
    LET hits == {x \in DOMAIN a.instRor : a.instRor[x] = ror}
    IN IF hits = {} THEN ""
       ELSE a[field][CHOOSE x \in hits : \A y \in hits : x <= y]

\* the authorships of the papers that credit the ROR, in order
CreditingPapers(auths, credited, ror) ==
    SeqFilter(auths, {k \in DOMAIN auths : ror \in Range(credited[k])})

\* rec.name: the name seen on the first crediting paper, else the ROR
PartnerName(auths, credited, ror) ==
    LET first == MetaAt(CreditingPapers(auths, credited, ror)[1], "instName", ror)
    IN IF first # "" THEN first ELSE ror

\* if (!rec.country && country) rec.country = country, over the crediting papers
CountryOnPapers(papers, ror) ==
    LET seen == [k \in DOMAIN papers |-> MetaAt(papers[k], "instCountry3", ror)]
        known == SeqFilter(seen, {k \in DOMAIN seen : seen[k] # ""})
    IN IF known = <<>> THEN "" ELSE known[1]

\* rec.country: the first country seen on a crediting paper, '' when none
PartnerCountry(auths, credited, ror) ==
    CountryOnPapers(CreditingPapers(auths, credited, ror), ror)

\* rows.slice(0, 12)
TopPartners == 12

RECURSIVE SortByCount(_)
\* rows.sort((a, b) => b.n - a.n): descending by n, equal counts keep their order
SortByCount(rows) ==
    IF rows = <<>> THEN <<>>
    ELSE LET top == CHOOSE i \in DOMAIN rows :
                       /\ \A j \in DOMAIN rows : rows[j].n <= rows[i].n
                       /\ \A j \in 1..(i - 1) : rows[j].n < rows[i].n
         IN <<rows[top]>> \o SortByCount(SeqFilter(rows, DOMAIN rows \ {top}))

\* drawTopRORPartners: the inferred home ROR and the ranked rows of the chart
\* the chart from what every paper credited: the tally entries without the
\* home ROR, sorted, the first twelve
ChartOfCredited(auths, credited, homeROR) ==
    LET keys == Dedup(Flatten(credited))
        kept == SeqFilter(keys, {x \in DOMAIN keys :
                                    homeROR = "" \/ keys[x] # homeROR})
        sorted == SortByCount([x \in DOMAIN kept |->
                                 [ror |-> kept[x],
                                  name |-> PartnerName(auths, credited, kept[x]),
                                  country |-> PartnerCountry(auths, credited, kept[x]),
                                  n |-> PartnerCount(credited, kept[x])]])
    IN [homeROR |-> homeROR,
        rows |-> SubSeq(sorted, 1, IF Len(sorted) < TopPartners
                                   THEN Len(sorted) ELSE TopPartners)]

\* the chart for an inferred home ROR
ChartOfHome(auths, cohort, homeROR) ==
    ChartOfCredited(auths,
                    [k \in DOMAIN auths |-> creditedThisCohort(auths[k], cohort, homeROR)],
                    homeROR)

\* the chart from the parsed authorships of the selection
ChartOfAuthorships(auths, cohort) ==
    ChartOfHome(auths, cohort, inferHomeROR(cohort, auths))

drawTopRORPartners(roster, pubs) ==
    IF CohortIDs(roster) = {} THEN [homeROR |-> "", rows |-> <<>>]
    ELSE ChartOfAuthorships([k \in DOMAIN pubs |-> parseAuthorships(pubs[k])],
                            CohortIDs(roster))

----------------------------------------------------------------------------
(* Topic embedding.  A JavaScript number is modelled in fixed point: the     *)
(* integer k stands for k / Scale, products and quotients are rounded.       *)

Scale == 1200

\* a * b and a / b on fixed-point numbers
Mul(a, b) == (2 * a * b + Scale) \div (2 * Scale)
Div(a, b) == (2 * a * Scale + b) \div (2 * b)

RECURSIVE SqrtBetween(_, _, _)
\* the largest r in lo..hi with r * r <= sq
SqrtBetween(sq, lo, hi) ==
    IF lo >= hi THEN lo
    ELSE LET mid == (lo + hi + 1) \div 2
         IN IF mid * mid <= sq THEN SqrtBetween(sq, mid, hi)
            ELSE SqrtBetween(sq, lo, mid - 1)

\* Math.sqrt on a fixed-point number a >= 0
Sqrt(a) == SqrtBetween(a * Scale, 0, a + Scale)

\* toLowerCase and whitespace normalisation over the topic names of the universe
lowerTerm(t) ==
    CASE t = "Ecology" -> "ecology"
      [] t = "Genomics" -> "genomics"
      [] t = "Gene  Flow" -> "gene flow"
      [] OTHER -> t

\* the terms of the universe with s.length > 1
LongTerms == {"ecology", "genomics", "gene flow", "biology"}

\* getTerms: topic and subfield, else the concept list; lower case, no
\* duplicates, no one-character fragment
getTerms(p) ==
    LET named == SeqFilter(<<lowerTerm(p.primary_topic_display_name),
                             lowerTerm(p.primary_topic_subfield_display_name)>>,
                           {i \in 1..2 :
                               <<p.primary_topic_display_name,
                                 p.primary_topic_subfield_display_name>>[i] # ""})
        concepts == SeqFilter([i \in DOMAIN p.concepts_list |-> lowerTerm(p.concepts_list[i])],
                              {i \in DOMAIN p.concepts_list : p.concepts_list[i] # ""})
        terms == Dedup(IF named # <<>> THEN named ELSE concepts)
    IN SeqFilter(terms, {i \in DOMAIN terms : terms[i] \in LongTerms})

\* the author ids of the work as buildAuthorTopicSets splits them: String(cell
\* || '').split('|'), not aligned with the countries
idsOfWork(p) ==
    IF p.authorships_author_id = <<>> THEN <<"">>
    ELSE [i \in DOMAIN p.authorships_author_id |->
             stripAuthorsPrefix(p.authorships_author_id[i])]

\* rec.terms of a cohort author: the terms of the publications listing the id;
\* ids[k] and terms[k] are the author ids and the terms of publication k
TermsOfAuthor(id, ids, terms) ==
    Dedup(Flatten([k \in DOMAIN ids |->
                     IF id # "" /\ id \in ids[k] THEN terms[k] ELSE <<>>]))

\* byAuthor after the fill loop: the cohort ids in roster order with their terms
filledSets(roster, pubs) ==
    LET cohort == Dedup([i \in DOMAIN roster |-> stripAuthorsPrefix(roster[i].OpenAlexID)])
        ids == [k \in DOMAIN pubs |-> Range(idsOfWork(pubs[k]))]
        terms == [k \in DOMAIN pubs |-> getTerms(pubs[k])]
    IN [i \in DOMAIN cohort |->
           [id |-> cohort[i], terms |-> Range(TermsOfAuthor(cohort[i], ids, terms))]]

\* .filter(a => a.terms.size > 0)
WithTerms(all) == SeqFilter(all, {i \in DOMAIN all : all[i].terms # {}})

\* buildAuthorTopicSets keeping the authors without a term
buildAuthorTopicSetsAll(roster, pubs) == filledSets(roster, pubs)

\* buildAuthorTopicSets: the cohort authors with at least one term, roster order
buildAuthorTopicSets(roster, pubs) == WithTerms(filledSets(roster, pubs))

\* jaccardDistance with the union counted without the intersection removed
jaccardDistanceSum(A, B) ==
    IF A = {} /\ B = {} THEN 0
    ELSE LET inter == Cardinality(A \cap B)
             union == Cardinality(A) + Cardinality(B)
         IN IF union # 0 THEN Scale - Div(inter * Scale, union * Scale) ELSE Scale

\* jaccardDistance: 1 - |A n B| / |A u B|, 0 for two empty sets
jaccardDistance(A, B) ==
    IF A = {} /\ B = {} THEN 0
    ELSE LET inter == Cardinality(A \cap B)
             union == Cardinality(A) + Cardinality(B) - inter
         IN IF union # 0 THEN Scale - Div(inter * Scale, union * Scale) ELSE Scale

\* the matrix D of drawAuthorTopicPCA: the upper triangle mirrored, 0 elsewhere
DistanceMatrix(authors) ==
    [i \in DOMAIN authors |->
        [j \in DOMAIN authors |->
            IF i < j THEN jaccardDistance(authors[i].terms, authors[j].terms)
            ELSE IF j < i THEN jaccardDistance(authors[j].terms, authors[i].terms)
            ELSE 0]]

RECURSIVE SumFn(_, _)
\* f[1] + ... + f[n]
SumFn(f, n) == IF n = 0 THEN 0 ELSE f[n] + SumFn(f, n - 1)

\* the matrix product A v of powerIter
MatVec(A, v) ==
    [i \in DOMAIN A |-> SumFn([j \in DOMAIN v |-> Mul(A[i][j], v[j])], Len(v))]

\* norm of powerIter: the Euclidean length, or 1 when that is 0
norm(x) ==
    LET r == Sqrt(SumFn([i \in DOMAIN x |-> Mul(x[i], x[i])], Len(x)))
    IN IF r = 0 THEN Scale ELSE r

\* x => x / nv over a vector
Normalized(x, nv) == [i \in DOMAIN x |-> Div(x[i], nv)]

\* iteration count of powerIter
Iters == 150

\* the values Math.random() yields for a vector of n entries: every entry in
\* [0, 1); four draws stand for the generator's outcomes
SeedKinds == {"even", "rising", "falling", "zero"}

Seed(kind, n) ==
    [i \in 1..n |->
        CASE kind = "even" -> Scale \div 2
          [] kind = "rising" -> (i * Scale) \div (n + 1)
          [] kind = "falling" -> ((n + 1 - i) * Scale) \div (n + 1)
          [] OTHER -> 0]

\* lambda of one iteration: the Rayleigh quotient v . Av
Rayleigh(A, v) ==
    LET Av == MatVec(A, v)
    IN SumFn([i \in DOMAIN v |-> Mul(v[i], Av[i])], Len(v))

\* v of one iteration: Av divided by its norm
Step(A, v) ==
    LET Av == MatVec(A, v)
    IN Normalized(Av, norm(Av))

\* the vector after n iterations, when iteration Len(hist) returns to hist[k]:
\* from there on the iterations repeat hist[k], ..., hist[Len(hist)]
VectorAt(hist, k, n) ==
    IF n < Len(hist) THEN hist[n + 1]
    ELSE hist[k + ((n + 1 - k) % (Len(hist) + 1 - k))]

\* the first k with hist[k] = v, or 0
RECURSIVE IndexOf(_, _, _)
IndexOf(hist, v, k) ==
    IF k > Len(hist) THEN 0
    ELSE IF hist[k] = v THEN k
    ELSE IndexOf(hist, v, k + 1)

RECURSIVE PowerLoop(_, _)
\* the loop of powerIter; hist[n + 1] is v after n iterations.  The loop body
\* is a function of v alone, so a v that recurs settles the remaining
\* iterations; lambda is computed from the v before the last iteration.
PowerLoop(A, hist) ==
    IF Len(hist) = Iters + 1
    THEN [value |-> Rayleigh(A, hist[Iters]), vector |-> hist[Iters + 1]]
    ELSE LET next == Step(A, hist[Len(hist)])
             k == IndexOf(hist, next, 1)
         IN IF k # 0
            THEN [value |-> Rayleigh(A, VectorAt(hist, k, Iters - 1)),
                  vector |-> VectorAt(hist, k, Iters)]
            ELSE PowerLoop(A, Append(hist, next))

\* powerIter started from the vector Math.random() drew
powerIter(A, seed) == PowerLoop(A, <<Normalized(seed, norm(seed))>>)

\* a clamp at the smallest positive number instead of 0
MaxTiny(value) == IF value > 1 THEN value ELSE 1

\* Math.max(value, 0)
Max0(value) == IF value > 0 THEN value ELSE 0

\* the coordinates from the two eigenpairs, the eigenvalues clamped at 0
Clamped(e1, e2) ==
    LET lam1 == Max0(e1.value)
        lam2 == Max0(e2.value)
    IN [x |-> [i \in DOMAIN e1.vector |-> Mul(Sqrt(lam1), e1.vector[i])],
        y |-> [i \in DOMAIN e2.vector |-> Mul(Sqrt(lam2), e2.vector[i])],
        eigenvalues |-> <<lam1, lam2>>]

\* the second half of classicalMDS2D: deflation, second eigenpair, coordinates
project(B, e1, seed2) ==
    LET B2 == [i \in DOMAIN B |-> [j \in DOMAIN B |->
                  B[i][j] - Mul(Mul(e1.value, e1.vector[i]), e1.vector[j])]]
    IN Clamped(e1, powerIter(B2, seed2))

\* B = -0.5 * J * D^2 * J with J = I - 11^T / N
DoubleCentered(D) ==
    LET N == Len(D)
        J(i, j) == IF i = j THEN Scale - Div(Scale, N * Scale) ELSE 0 - Div(Scale, N * Scale)
        DSq == [i \in 1..N |-> [j \in 1..N |-> Mul(D[i][j], D[i][j])]]
        M == [i \in 1..N |-> [j \in 1..N |->
                 SumFn([k \in 1..N |-> Mul(DSq[i][k], J(k, j))], N)]]
    IN [i \in 1..N |-> [j \in 1..N |->
           Mul(0 - (Scale \div 2), SumFn([k \in 1..N |-> Mul(J(i, k), M[k][j])], N))]]

\* classicalMDS2D with the two vectors Math.random() drew for the two eigenpairs
classicalMDS2D(D, kind1, kind2) ==
    IF Len(D) < 2 THEN [x |-> <<>>, y |-> <<>>, eigenvalues |-> <<>>]
    ELSE LET B == DoubleCentered(D)
         IN project(B, powerIter(B, Seed(kind1, Len(D))), Seed(kind2, Len(D)))

\* the scatter of the authors at the coordinates of the fit
Drawn(authors, fit) ==
    [status |-> "drawn", authors |-> authors,
     x |-> fit.x, y |-> fit.y, eigenvalues |-> fit.eigenvalues]

\* drawAuthorTopicPCA from the authors on: the message for fewer than two
\* topic-bearing authors, else their coordinates
embedAuthors(authors, kind1, kind2) ==
    IF Len(authors) < 2
    THEN [status |-> "insufficient", authors |-> <<>>,
          x |-> <<>>, y |-> <<>>, eigenvalues |-> <<>>]
    ELSE Drawn(authors, classicalMDS2D(DistanceMatrix(authors), kind1, kind2))

drawAuthorTopicPCA(roster, pubs, kind1, kind2) ==
    embedAuthors(buildAuthorTopicSets(roster, pubs), kind1, kind2)

----------------------------------------------------------------------------
(* Filter pipeline *)

DEFAULT_START_YEAR == 2021
DEFAULT_END_YEAR == 2025

\* clampYear: a value that is not a number (0 here) or below the range gives
\* the start year, one above the range the end year
clampYear(y) ==
    IF y = 0 THEN DEFAULT_START_YEAR
    ELSE IF y < DEFAULT_START_YEAR THEN DEFAULT_START_YEAR
    ELSE IF y > DEFAULT_END_YEAR THEN DEFAULT_END_YEAR
    ELSE y

\* yearBounds = { min: Math.min(ymin, ymax), max: Math.max(ymin, ymax) }
YearBounds(u) ==
    LET ymin == clampYear(u.year_min)
        ymax == clampYear(u.year_max)
    IN [min |-> IF ymin <= ymax THEN ymin ELSE ymax,
        max |-> IF ymin <= ymax THEN ymax ELSE ymin]

\* stem over the words of the universe
stem(w) == IF w = "genes" THEN "gene" ELSE w

\* tokenize: the stemmed words, as a set
tokenize(words) == {stem(w) : w \in words}

\* fuzzyQueryMatch: every stemmed query token equals a stemmed text token
fuzzyQueryMatch(query, haystack) ==
    \A qt \in tokenize(Range(query)) : qt \in tokenize(haystack)

\* rows of source within the year bounds and matching the topic query
YearTopicPubs(source, u) ==
    SeqFilter(source,
              {i \in DOMAIN source :
                  /\ source[i].publication_year >= YearBounds(u).min
                  /\ source[i].publication_year <= YearBounds(u).max
                  /\ (u.topic # <<>> => fuzzyQueryMatch(u.topic, source[i].topic_haystack))})

\* passesFilters with all of a member's group tags required to be selected
passesFiltersAllGroups(r, u) ==
    /\ (u.level # {} => r.Level \in u.level)
    /\ (u.category # {} => r.Category \in u.category)
    /\ (u.appointment # {} => r.Appointment \in u.appointment)
    /\ (u.research_group # {} => \A g \in Range(r.RGs) : g \in u.research_group)

\* the callback of rosterData.filter in the unfocused branch
passesFilters(r, u) ==
    /\ (u.level # {} => r.Level \in u.level)
    /\ (u.category # {} => r.Category \in u.category)
    /\ (u.appointment # {} => r.Appointment \in u.appointment)
    /\ (u.research_group # {} => \E g \in Range(r.RGs) : g \in u.research_group)

\* filteredRoster
FilteredRoster(roster, u) ==
    SeqFilter(roster, {i \in DOMAIN roster : passesFilters(roster[i], u)})

\* pubs limited to those whose representative author is in filteredRoster
AllowedPubs(filtered, pubs) ==
    SeqFilter(pubs, {i \in DOMAIN pubs :
                        normalizeID(pubs[i].author_openalex_id) \in
                            {normalizeID(filtered[j].OpenAlexID) : j \in DOMAIN filtered}})

\* ContributingOf keeping every filtered member
ContributingOfAll(filtered, pubs) == filtered

\* contributingRoster: filtered members who have a row among pubs
ContributingOf(filtered, pubs) ==
    SeqFilter(filtered, {i \in DOMAIN filtered :
                            normalizeID(filtered[i].OpenAlexID) \in
                                {normalizeID(pubs[j].author_openalex_id) : j \in DOMAIN pubs}})

\* replace(/^https?:\/\/(dx\.)?doi\.org\//i, '').toLowerCase() over the DOIs of
\* the universe
bareDoi(doi) ==
    IF doi \in {"https://doi.org/10.1/X", "https://doi.org/10.1/x", "10.1/X"}
    THEN "10.1/x" ELSE doi

\* normalizeText over the titles of the universe: lower case, the words kept
\* apart
normalizeText(words) == [i \in DOMAIN words |-> IF words[i] = "Flow" THEN "flow" ELSE words[i]]

\* workKey passing over the DOI
workKeyNoDoi(p) ==
    IF normalizeID(p.id) # "" THEN <<"id", normalizeID(p.id)>>
    ELSE <<"t", normalizeText(p.display_name)>>

\* workKey: work id, else DOI, else normalized title
workKey(p) ==
    IF normalizeID(p.id) # "" THEN <<"id", normalizeID(p.id)>>
    ELSE IF bareDoi(p.doi) # "" THEN <<"doi", bareDoi(p.doi)>>
    ELSE <<"t", normalizeText(p.display_name)>>

\* the focused branch: the focused author's rows, deduplicated by work key
FocusedPubs(pubs, fa, fromPerAuthor) ==
    LET mine == SeqFilter(pubs,
                   {i \in DOMAIN pubs :
                       IF fromPerAuthor
                       THEN normalizeID(pubs[i].author_openalex_id) = fa
                       ELSE \/ normalizeID(pubs[i].author_openalex_id) = fa
                            \/ fa \in Range(pubs[i].cohort_union_author_ids)
                            \/ fa \in {normalizeID(x) :
                                         x \in Range(splitPipe(pubs[i].authorships_author_id))}})
    IN SeqFilter(mine, {i \in DOMAIN mine :
                          \A j \in 1..(i - 1) : workKey(mine[j]) # workKey(mine[i])})

\* applyFilters applying the roster attribute filters to the focused row too
applyFiltersFocusFiltered(roster, dedup, perAuthor, u, focused) ==
    LET fromPerAuthor == focused # "" /\ perAuthor # <<>>
        pubs == YearTopicPubs(IF fromPerAuthor THEN perAuthor ELSE dedup, u)
        filtered == FilteredRoster(roster, u)
    IN IF focused # ""
       THEN [contributingRoster |->
                 SeqFilter(filtered, {i \in DOMAIN filtered :
                                         normalizeID(filtered[i].OpenAlexID) = normalizeID(focused)}),
             selectedPubs |-> FocusedPubs(pubs, normalizeID(focused), fromPerAuthor)]
       ELSE [contributingRoster |-> ContributingOf(filtered, AllowedPubs(filtered, pubs)),
             selectedPubs |-> AllowedPubs(filtered, pubs)]

\* applyFilters on the page's inputs: { contributingRoster, selectedPubs }
applyFilters(roster, dedup, perAuthor, u, focused) ==
    LET fromPerAuthor == focused # "" /\ perAuthor # <<>>
        sourcePubs == IF fromPerAuthor THEN perAuthor ELSE dedup
        pubs == YearTopicPubs(sourcePubs, u)
    IN IF focused # ""
       THEN LET fa == normalizeID(focused)
            IN [contributingRoster |->
                   SeqFilter(roster, {i \in DOMAIN roster : normalizeID(roster[i].OpenAlexID) = fa}),
                selectedPubs |-> FocusedPubs(pubs, fa, fromPerAuthor)]
       ELSE LET filtered == FilteredRoster(roster, u)
                kept == AllowedPubs(filtered, pubs)
            IN [contributingRoster |-> ContributingOf(filtered, kept),
                selectedPubs |-> kept]

----------------------------------------------------------------------------
(* Initial values shared by the specifications *)

\* 'null' of the variable activeTypes
NullTypes == {"null"}

\* firstUpdate before the first update()
NoView == <<>>

NoGraph == [nodes |-> <<>>, edges |-> <<>>]
NoSeries == [iso3 |-> <<>>, values |-> <<>>, total |-> 0]
NoDetail == [iso3 |-> "", matched |-> <<>>, authorHitCounts |-> <<>>]
NoPartners == [homeROR |-> "", rows |-> <<>>]
NoEmbedding ==
    [status |-> "none", authors |-> <<>>, x |-> <<>>, y |-> <<>>, eigenvalues |-> <<>>]
NoSelection == [level |-> {}, category |-> {}, appointment |-> {}, research_group |-> {},
                year_min |-> 2021, year_max |-> 2025, topic |-> <<>>]

\* all subsequences of s (the rows kept by some filter)
SubSeqs(s) == {SeqFilter(s, keep) : keep \in SUBSET DOMAIN s}

----------------------------------------------------------------------------
(* SpecGraph: computeCoauthorGraph applied to drawn inputs *)

AnnLee == Name(<<"ann", "lee">>, <<>>)
ALee == Name(<<"a", "lee">>, <<>>)
BobVanDyk == Name(<<"bob", "van", "dyk">>, <<>>)
VanDykBob == Name(<<"van", "dyk">>, <<"bob">>)
AlLeeJr == Name(<<"al", "lee", "jr">>, <<>>)
CyRoe == Name(<<"cy", "roe">>, <<>>)

\* the roster file: RGs holds the cells RG1..RG4; one id arrives as a URL, one
\* row has no category and no research group
RosterFile ==
    << RosterRow("A1", AnnLee, "Professor", "Faculty", "Full-time",
                 <<"Ecology", "", "", "">>),
       RosterRow("https://openalex.org/A2", VanDykBob, "Assistant", "Faculty", "Full-time",
                 <<"Ecology", "", "Genomics", "">>),
       RosterRow("A3", AlLeeJr, "Professor", "", "Part-time", <<"", "", "", "">>) >>

\* normalizeRoster: bare ids, _RGs = the non-empty cells among RG1..RG4
normalizeRoster(rows) ==
    [i \in DOMAIN rows |->
        [rows[i] EXCEPT !.OpenAlexID = normalizeID(@),
                        !.RGs = SeqFilter(@, {k \in DOMAIN @ : @[k] # ""})]]

GraphRoster == normalizeRoster(RosterFile)

\* raw work ids of the works 1, 2, ...; the second one arrives as a URL
WorkIds == <<"W1", "https://openalex.org/W2", "W3", "W4">>
\* raw author ids as the authorship file writes them
RawAuthorIds == {"A1", "https://openalex.org/A2", "A3"}

\* the "authors" cells a work may carry
AuthorCells == { <<>>, <<AnnLee>>, <<ALee, BobVanDyk>>, <<VanDykBob, CyRoe>>,
                 <<CyRoe, Name(<<>>, <<>>), AnnLee, BobVanDyk>> }

GraphPub(k, cell) == PubRow(WorkIds[k], "A1", 2023, cell, <<>>, <<>>, <<>>)
AnonPub == PubRow("", "A1", 2023, <<AnnLee, BobVanDyk>>, <<>>, <<>>, <<>>)

\* the rows of the authorship file for the membership memb, work by work
RowsOf(memb) ==
    Flatten([k \in 1..MaxWorks |->
               LET ids == SortIds({normalizeID(a) : a \in memb[k]})
               IN [i \in DOMAIN ids |->
                     AuthorshipRow(WorkIds[k],
                                   CHOOSE a \in memb[k] : normalizeID(a) = ids[i])]])

InitGraph ==
    /\ rosterData = GraphRoster
    /\ contributingRoster \in SubSeqs(GraphRoster)
    /\ \E cells \in [1..MaxWorks -> AuthorCells], memb \in [1..MaxWorks -> SUBSET RawAuthorIds],
          sel \in SUBSET (1..MaxWorks), anon \in BOOLEAN :
          /\ \/ (\A k \in 1..MaxWorks : cells[k] = <<>>)     \* authorship file present
             \/ (\A k \in 1..MaxWorks : memb[k] = {})        \* authorship file absent
          /\ pubData = [k \in 1..MaxWorks |-> GraphPub(k, cells[k])] \o <<AnonPub>>
          /\ selectedPubs = SeqFilter(pubData, sel \cup (IF anon THEN {MaxWorks + 1} ELSE {}))
          /\ authorshipData = RowsOf(memb)
    /\ ui = NoSelection
    /\ focusedAuthorID = ""
    /\ graph = NoGraph
    /\ homeISO3 = ""
    /\ intlSeries = NoSeries
    /\ countryDetail = NoDetail
    /\ perAuthorData = <<>>
    /\ timer = FALSE
    /\ rendered = FALSE
    /\ partners = NoPartners
    /\ embedding = NoEmbedding
    /\ loadError = FALSE
    /\ activeTypes = NullTypes
    /\ pubsForList = <<>>
    /\ firstUpdate = NoView

\* updateCoauthorPanels(contributingRoster, selectedPubs)
UpdateCoauthorPanels ==
    /\ ~rendered
    /\ graph' = computeCoauthorGraph(contributingRoster, selectedPubs, authorshipData)
    /\ rendered' = TRUE
    /\ UNCHANGED <<rosterData, pubData, authorshipData, ui, focusedAuthorID,
                   contributingRoster, selectedPubs, homeISO3, intlSeries, countryDetail,
                   perAuthorData, timer,
                   partners, embedding, loadError,
                   activeTypes, pubsForList, firstUpdate>>

NextGraph == UpdateCoauthorPanels

SpecGraph == InitGraph /\ [][NextGraph]_vars

----------------------------------------------------------------------------
(* SpecIntl: the international-map part of update() and the country click, *)
(* applied to drawn selections                                             *)

IntlRoster == SubSeq(GraphRoster, 1, 2)

\* one authorship: author id, position, country code as the CSV writes them
AuthEntries == [id : {"A1", "X9"}, pos : {"first", "middle", "last", ""},
                cty : {"", "US", "FR"}]

\* a publication row carrying the authorships es
IntlPub(es) ==
    PubRow("W1", "A1", 2023, <<>>,
           [i \in DOMAIN es |-> es[i].id],
           [i \in DOMAIN es |-> es[i].cty],
           [i \in DOMAIN es |-> es[i].pos])

Entry(id, pos, cty) == [id |-> id, pos |-> pos, cty |-> cty]

\* publications for lists: two cohort authors, 2- and 3-letter codes, a
\* capitalised position, an author id in URL form, a repeated country, a
\* cohort middle author beside a cohort last author abroad, a single-author
\* work of a cohort member
ListPubs ==
    { IntlPub(<<Entry("A1", "first", "US"), Entry("A2", "last", "US")>>),
      IntlPub(<<Entry("A1", "first", "USA"), Entry("A2", "middle", "GB")>>),
      IntlPub(<<Entry("A1", "middle", "GB"), Entry("X9", "First", "FR"),
                Entry("X9", "middle", "US")>>),
      IntlPub(<<Entry("X9", "first", "FR"),
                Entry("https://openalex.org/authors/A2", "last", "US")>>),
      IntlPub(<<Entry("A2", "last", "GB"), Entry("X9", "middle", "FR"),
                Entry("X9", "", "FR")>>),
      IntlPub(<<Entry("A1", "first", "US"), Entry("X9", "middle", "FR"),
                Entry("X9", "", "GB")>>),
      IntlPub(<<Entry("A1", "", ""), Entry("X9", "last", "ZZ")>>),
      IntlPub(<<Entry("A1", "middle", "US"), Entry("A2", "last", "FR"),
                Entry("A2", "first", "FR")>>),
      IntlPub(<<Entry("A1", "first", "FR")>>) }

InitIntl ==
    /\ rosterData = GraphRoster
    /\ contributingRoster = IntlRoster
    /\ \/ \E n \in 1..MaxAuth : \E es \in [1..n -> AuthEntries] : selectedPubs = <<IntlPub(es)>>
       \/ \E n \in 1..MaxIntlPubs : selectedPubs \in [1..n -> ListPubs]
    /\ pubData = selectedPubs
    /\ authorshipData = <<>>
    /\ ui = NoSelection
    /\ focusedAuthorID = ""
    /\ graph = NoGraph
    /\ homeISO3 = ""
    /\ intlSeries = NoSeries
    /\ countryDetail = NoDetail
    /\ perAuthorData = <<>>
    /\ timer = FALSE
    /\ rendered = FALSE
    /\ partners = NoPartners
    /\ embedding = NoEmbedding
    /\ loadError = FALSE
    /\ activeTypes = NullTypes
    /\ pubsForList = <<>>
    /\ firstUpdate = NoView

\* update(), "INTERNATIONAL MAP WIRING": window.__homeISO3 and the series
IntlWiring ==
    /\ ~rendered
    /\ homeISO3' = computeHomeCountry(contributingRoster, selectedPubs)
    /\ intlSeries' = computeIntlLinks(selectedPubs, contributingRoster, homeISO3')
    /\ rendered' = TRUE
    /\ UNCHANGED <<rosterData, pubData, authorshipData, ui, focusedAuthorID,
                   contributingRoster, selectedPubs, graph, countryDetail,
                   perAuthorData, timer,
                   partners, embedding, loadError,
                   activeTypes, pubsForList, firstUpdate>>

\* plotly_click on a location of the map (a country of the series or the
\* home country): showCountryDetail(iso3) on the globals of the last cycle
CountryClick(iso3) ==
    /\ rendered
    /\ iso3 \in Range(intlSeries.iso3) \cup {homeISO3}
    /\ countryDetail' = showCountryDetail(selectedPubs, contributingRoster, homeISO3, iso3)
    /\ UNCHANGED <<rosterData, pubData, authorshipData, ui, focusedAuthorID,
                   contributingRoster, selectedPubs, graph, homeISO3, intlSeries,
                   perAuthorData, timer, rendered,
                   partners, embedding, loadError,
                   activeTypes, pubsForList, firstUpdate>>

NextIntl ==
    \/ IntlWiring
    \/ \E iso3 \in Range(CountryOrder) : CountryClick(iso3)

SpecIntl == InitIntl /\ [][NextIntl]_vars

----------------------------------------------------------------------------
(* SpecPartners: drawTopRORPartners applied to drawn selections whose        *)
(* authorship cells may differ in length                                     *)

\* one authorship with its institutions: author id and the ROR cell part; a
\* roster member holds at most one authorship of a drawn publication
InstEntries == [id : {"A1", "A2", "X9"},
                ror : {<<"">>, <<"https://ror.org/R1", "R3">>, <<"R2">>, <<"R3">>}]

InstName(ror) ==
    CASE ror = <<"R2">> -> <<"Univ Two">>
      [] ror = <<"R3">> -> <<"Inst Three">>
      [] OTHER -> <<"">>

InstCountry(ror) ==
    CASE ror = <<"https://ror.org/R1", "R3">> -> <<"CA", "US">>
      [] ror = <<"R3">> -> <<"fr">>
      [] OTHER -> <<"">>

\* a publication row carrying the authorships es; its countries cell has nc
\* parts and its institution cells ni parts
InstPub(es, nc, ni) ==
    [PubRow("W1", "A1", 2023, <<>>,
            [i \in DOMAIN es |-> es[i].id],
            [i \in 1..nc |-> "CA"],
            [i \in DOMAIN es |-> "middle"])
       EXCEPT !.authorships_institutions_ror = [i \in 1..ni |-> es[i].ror],
              !.authorships_institutions_display_name = [i \in 1..ni |-> InstName(es[i].ror)],
              !.authorships_institutions_country_code =
                  [i \in 1..ni |-> InstCountry(es[i].ror)],
              !.authorships_author_display_name =
                  [i \in DOMAIN es |-> IF es[i].id = "X9" THEN "" ELSE "Ann Lee"],
              !.authorships_raw_author_name = [i \in DOMAIN es |-> "A. Lee"],
              !.authorships_is_corresponding =
                  [i \in 1..(Len(es) - 1) |-> IF i = 1 THEN "True" ELSE "0"]]

InstEntry(id, ror) == [id |-> id, ror |-> ror]

\* the row with empty institution name and country cells
Unnamed(pub) ==
    [pub EXCEPT !.authorships_institutions_display_name = <<>>,
                !.authorships_institutions_country_code = <<>>]

\* well-formed publications for lists: the cohort at R1, partners at R2 and R3,
\* and a row that names no institution
PartnerPubs ==
    { InstPub(<<InstEntry("A1", <<"https://ror.org/R1", "R3">>), InstEntry("X9", <<"R2">>)>>, 2, 2),
      InstPub(<<InstEntry("A1", <<"https://ror.org/R1", "R3">>), InstEntry("A2", <<"R2">>),
                InstEntry("X9", <<"R2">>)>>, 3, 3),
      InstPub(<<InstEntry("A1", <<"">>), InstEntry("A2", <<"R3">>),
                InstEntry("X9", <<"R3">>)>>, 3, 3),
      InstPub(<<InstEntry("A2", <<"R2">>), InstEntry("X9", <<"R3">>),
                InstEntry("X9", <<"https://ror.org/R1", "R3">>)>>, 3, 3),
      InstPub(<<InstEntry("A2", <<"R3">>), InstEntry("X9", <<"R3">>),
                InstEntry("X9", <<"R2">>)>>, 3, 3),
      InstPub(<<InstEntry("X9", <<"R2">>), InstEntry("X9", <<"R3">>)>>, 2, 2),
      Unnamed(InstPub(<<InstEntry("A1", <<"https://ror.org/R1", "R3">>),
                        InstEntry("X9", <<"R3">>)>>, 2, 2)) }

InitPartners ==
    /\ rosterData = GraphRoster
    /\ \/ contributingRoster = <<>> /\ selectedPubs = <<>>
       \/ /\ contributingRoster = IntlRoster
          /\ \/ \E n \in 1..MaxAuth : \E es \in [1..n -> InstEntries] :
                   \E nc \in 0..(n + 1), ni \in {0, n} :
                      /\ \A i, j \in 1..n : es[i].id = es[j].id => (i = j \/ es[i].id = "X9")
                      /\ selectedPubs = <<InstPub(es, nc, ni)>>
             \/ \E n \in 1..MaxIntlPubs : selectedPubs \in [1..n -> PartnerPubs]
    /\ pubData = selectedPubs
    /\ authorshipData = <<>>
    /\ ui = NoSelection
    /\ focusedAuthorID = ""
    /\ graph = NoGraph
    /\ homeISO3 = ""
    /\ intlSeries = NoSeries
    /\ countryDetail = NoDetail
    /\ perAuthorData = <<>>
    /\ timer = FALSE
    /\ rendered = FALSE
    /\ partners = NoPartners
    /\ embedding = NoEmbedding
    /\ loadError = FALSE
    /\ activeTypes = NullTypes
    /\ pubsForList = <<>>
    /\ firstUpdate = NoView

\* update(): drawTopRORPartners(contributingRoster, selectedPubs)
DrawTopRORPartners ==
    /\ ~rendered
    /\ partners' = drawTopRORPartners(contributingRoster, selectedPubs)
    /\ rendered' = TRUE
    /\ UNCHANGED <<rosterData, pubData, authorshipData, ui, focusedAuthorID,
                   contributingRoster, selectedPubs, graph, homeISO3, intlSeries,
                   countryDetail, perAuthorData, timer, embedding, loadError,
                   activeTypes, pubsForList, firstUpdate>>

NextPartners == DrawTopRORPartners

SpecPartners == InitPartners /\ [][NextPartners]_vars

----------------------------------------------------------------------------
(* SpecEmbed: the tail of update(), drawAuthorTopicPCA then                  *)
(* drawTopRORPartners, applied to drawn selections carrying topics           *)

\* a publication of the authors es with its topic, subfield and concept list
TopicPub(es, ids, topic, subfield, concepts) ==
    [InstPub(es, Len(es), Len(es))
       EXCEPT !.authorships_author_id = ids,
              !.primary_topic_display_name = topic,
              !.primary_topic_subfield_display_name = subfield,
              !.concepts_list = concepts]

TopicPubs ==
    { TopicPub(<<InstEntry("A1", <<"R2">>), InstEntry("A2", <<"R2">>)>>,
               <<"A1", "https://openalex.org/authors/A2">>, "Ecology", "biology", <<"g">>),
      TopicPub(<<InstEntry("A3", <<"R2">>)>>, <<"A3">>, "Genomics", "", <<>>),
      TopicPub(<<InstEntry("A2", <<"R2">>), InstEntry("X9", <<"R3">>)>>,
               <<"A2", "X9">>, "", "", <<"Gene  Flow", "g", "">>),
      TopicPub(<<InstEntry("A1", <<"R2">>), InstEntry("X9", <<"R3">>)>>,
               <<"A1", "X9">>, "", "", <<"g">>),
      TopicPub(<<InstEntry("A1", <<"R2">>), InstEntry("A2", <<"R2">>),
                 InstEntry("A3", <<"R2">>)>>,
               <<"A1", "A2", "A3">>, "Ecology", "biology", <<>>),
      TopicPub(<<InstEntry("A3", <<"R2">>), InstEntry("X9", <<"R3">>)>>,
               <<"A3", "X9">>, "Ecology", "", <<>>),
      TopicPub(<<InstEntry("X9", <<"R3">>)>>, <<>>, "Ecology", "", <<>>) }

InitEmbed ==
    /\ rosterData = GraphRoster
    /\ \/ contributingRoster = <<>> /\ selectedPubs = <<>>
       \/ /\ contributingRoster \in {GraphRoster, IntlRoster}
          /\ \E n \in 1..MaxIntlPubs : selectedPubs \in [1..n -> TopicPubs]
    /\ pubData = selectedPubs
    /\ authorshipData = <<>>
    /\ ui = NoSelection
    /\ focusedAuthorID = ""
    /\ graph = NoGraph
    /\ homeISO3 = ""
    /\ intlSeries = NoSeries
    /\ countryDetail = NoDetail
    /\ perAuthorData = <<>>
    /\ timer = FALSE
    /\ rendered = FALSE
    /\ partners = NoPartners
    /\ embedding = NoEmbedding
    /\ loadError = FALSE
    /\ activeTypes = NullTypes
    /\ pubsForList = <<>>
    /\ firstUpdate = NoView

\* update(): drawAuthorTopicPCA(selectedPubs, contributingRoster), then
\* drawTopRORPartners(contributingRoster, selectedPubs)
DrawAuthorTopicPCA(kind1, kind2) ==
    /\ ~rendered
    /\ embedding' = drawAuthorTopicPCA(contributingRoster, selectedPubs, kind1, kind2)
    /\ partners' = drawTopRORPartners(contributingRoster, selectedPubs)
    /\ rendered' = TRUE
    /\ UNCHANGED <<rosterData, pubData, authorshipData, ui, focusedAuthorID,
                   contributingRoster, selectedPubs, graph, homeISO3, intlSeries,
                   countryDetail, perAuthorData, timer, loadError,
                   activeTypes, pubsForList, firstUpdate>>

NextEmbed == \E kind1, kind2 \in SeedKinds : DrawAuthorTopicPCA(kind1, kind2)

SpecEmbed == InitEmbed /\ [][NextEmbed]_vars

----------------------------------------------------------------------------
(* Spec: the dashboard as an event machine.  The CSV files are loaded, the  *)
(* filters are initialised, and every UI event runs update().               *)

\* the type cell of a row of the publication file: an article, a data set, a
\* review, no type
TypeCell(id) ==
    CASE id = "W1" -> "journal-article"
      [] id = "https://openalex.org/W2" -> "Dataset"
      [] id = "W4" -> "review article"
      [] OTHER -> ""

\* a row of the publication file; the first work lists its authors by name
FilePub(id, rep, year, title, union, es) ==
    [PubRow(id, rep, year,
            IF id = "W1" THEN <<AnnLee, BobVanDyk>> ELSE <<>>,
            [i \in DOMAIN es |-> es[i].id],
            [i \in DOMAIN es |-> es[i].cty],
            [i \in DOMAIN es |-> es[i].pos])
       EXCEPT !.display_name = title, !.cohort_union_author_ids = union,
              !.type = TypeCell(id)]

\* the row with its primary topic and the institution cells of its authorships
WithTopic(row, topic, rors) ==
    [row EXCEPT !.primary_topic_display_name = topic,
                !.authorships_institutions_ror = rors,
                !.authorships_institutions_display_name =
                    [i \in DOMAIN rors |-> InstName(rors[i])],
                !.authorships_institutions_country_code =
                    [i \in DOMAIN rors |-> InstCountry(rors[i])]]

\* the publication file (one row per work): ids bare and as URLs, a year before
\* the window, a representative author outside the roster; the first two rows
\* carry topics and institutions
PubFile ==
    << WithTopic(FilePub("W1", "A1", 2021, <<"genes">>, <<"A1", "A2">>,
                         <<Entry("A1", "first", "CA"), Entry("A2", "middle", "CA"),
                           Entry("X9", "last", "US")>>),
                 "Ecology", << <<"https://ror.org/R1", "R3">>, <<"https://ror.org/R1", "R3">>,
                               <<"R2">> >>),
       WithTopic(FilePub("https://openalex.org/W2", "https://openalex.org/A2", 2025,
                         <<"gene", "flow">>, <<"A2">>,
                         <<Entry("A2", "first", "CA"), Entry("X9", "last", "FR")>>),
                 "Genomics", << <<"https://ror.org/R1", "R3">>, <<"R3">> >>),
       FilePub("W3", "X9", 2019, <<"flow">>, <<>>,
               <<Entry("X9", "first", "US"), Entry("A1", "middle", "CA")>>),
       FilePub("W4", "A3", 2025, <<"genes">>, <<"A3", "A1">>,
               <<Entry("A3", "first", "CA"), Entry("A1", "last", "CA")>>),
       FilePub("W5", "A1", 2023, <<"flow">>, <<"A1">>,
               <<Entry("A1", "first", "GB")>>) >>

\* the per-author file: one row per work and cohort author of the work
PerAuthorFile(pubs) ==
    Flatten([i \in DOMAIN pubs |->
               [k \in DOMAIN pubs[i].cohort_union_author_ids |->
                   [pubs[i] EXCEPT !.author_openalex_id =
                                       pubs[i].cohort_union_author_ids[k]]]])

\* the authorship file: one row per work and author of the work
AuthorshipFile(pubs) ==
    Flatten([i \in DOMAIN pubs |->
               [k \in DOMAIN pubs[i].authorships_author_id |->
                   AuthorshipRow(pubs[i].id, pubs[i].authorships_author_id[k])]])

\* the name tokens normalizePubsFor keeps for a roster member
NameTokens(r) == Range(r.Name.pre) \cup Range(r.Name.post)

\* normalizePubType: lower case, the journal-article and review-article
\* spellings folded, over the type cells of the universe
normalizePubType(t) ==
    CASE t \in {"journal-article", "Journal Article"} -> "article"
      [] t = "review article" -> "review"
      [] t = "Dataset" -> "dataset"
      [] OTHER -> t

\* p.doi = 'https://doi.org/' + p.doi unless the cell is empty or a URL
doiURL(doi) == IF doi = "10.1/X" THEN "https://doi.org/10.1/X" ELSE doi

\* normalizePubsFor: clamped year, bare representative id, DOI as a URL, and the haystack of
\* the title words and the name tokens of the cohort authors on the work
normalizePubsFor(arr, roster) ==
    [i \in DOMAIN arr |->
        LET p == arr[i]
            union == SeqFilter(p.cohort_union_author_ids,
                               {k \in DOMAIN p.cohort_union_author_ids :
                                   normalizeID(p.cohort_union_author_ids[k]) # ""})
            ids == IF union # <<>> THEN union
                   ELSE splitPipe(p.authorships_author_id)
            onWork == {normalizeID(ids[k]) : k \in DOMAIN ids}
        IN [p EXCEPT !.publication_year = clampYear(@),
                     !.author_openalex_id = normalizeID(@),
                     !.doi = doiURL(@),
                     !.type_norm = normalizePubType(p.type),
                     !.topic_haystack =
                         Range(normalizeText(p.display_name)) \cup
                         UNION {NameTokens(roster[j]) :
                                  j \in {j \in DOMAIN roster : roster[j].OpenAlexID \in onWork}}]]

\* uniqueNonEmpty of a roster column, the options of its multi-select
OptionsOf(roster, dim) ==
    CASE dim = "level" -> {roster[i].Level : i \in DOMAIN roster} \ {""}
      [] dim = "category" -> {roster[i].Category : i \in DOMAIN roster} \ {""}
      [] dim = "appointment" -> {roster[i].Appointment : i \in DOMAIN roster} \ {""}
      [] OTHER -> UNION {Range(roster[i].RGs) : i \in DOMAIN roster}

Dimensions == {"level", "category", "appointment", "research_group"}

\* isFullTime over the appointment values of the universe
isFullTime(s) == s = "Full-time"

\* setDefaultAppointmentSelection: only the full-time options selected
DefaultAppointment(roster) == {o \in OptionsOf(roster, "appointment") : isFullTime(o)}

\* what the user types into the year boxes and the topic box
YearInputs == {2021, 2025}
TopicInputs == {<<>>, <<"genes">>}

\* the vectors Math.random() draws in a cycle of the event machine that runs
\* classicalMDS2D: two of the outcomes of SeedKinds
CycleSeeds == {"rising", "falling"}

DEFAULT_TYPE_SET == {"article", "book", "book-chapter", "review"}

\* p._type_norm || 'other'
TypeOf(p) == IF p.type_norm # "" THEN p.type_norm ELSE "other"

\* pubsForList showing every selected row
pubsOfAnyType(selected, types) == selected

\* selectedPubs.filter(p => activeTypes.has(p._type_norm || 'other'))
pubsOfTypes(selected, types) ==
    SeqFilter(selected, {i \in DOMAIN selected : TypeOf(selected[i]) \in types})

\* update(): applyFilters on the DOM inputs u and the focus f, the default type
\* set when activeTypes (types) is null, then the panels
update(roster, dedup, perAuthor, rows, u, f, types) ==
    \E r \in {applyFilters(roster, dedup, perAuthor, u, f)} :
        /\ contributingRoster' = r.contributingRoster
        /\ selectedPubs' = r.selectedPubs
        /\ activeTypes' = IF types = NullTypes THEN DEFAULT_TYPE_SET ELSE types
        /\ pubsForList' = pubsOfTypes(selectedPubs', activeTypes')
        /\ graph' = computeCoauthorGraph(contributingRoster', selectedPubs', rows)
        /\ homeISO3' = computeHomeCountry(contributingRoster', selectedPubs')
        /\ intlSeries' = computeIntlLinks(selectedPubs', contributingRoster', homeISO3')
        /\ \E authors \in {buildAuthorTopicSets(contributingRoster', selectedPubs')} :
              \E kind \in IF Len(authors) < 2 THEN {"zero"} ELSE CycleSeeds :
                 embedding' = embedAuthors(authors, kind, kind)
        /\ partners' = drawTopRORPartners(contributingRoster', selectedPubs')
        /\ rendered' = TRUE

\* update() reading the inputs of the cycle before
RefreshStale(u, f, types) ==
    update(rosterData, pubData, perAuthorData, authorshipData, ui, focusedAuthorID,
           activeTypes)

\* update() on the loaded data
Refresh(u, f, types) ==
    update(rosterData, pubData, perAuthorData, authorshipData, u, f, types)

Init ==
    /\ rosterData = <<>>
    /\ pubData = <<>>
    /\ authorshipData = <<>>
    /\ perAuthorData = <<>>
    /\ ui = [NoSelection EXCEPT !.year_min = 0, !.year_max = 0]
    /\ focusedAuthorID = ""
    /\ contributingRoster = <<>>
    /\ selectedPubs = <<>>
    /\ graph = NoGraph
    /\ homeISO3 = ""
    /\ intlSeries = NoSeries
    /\ countryDetail = NoDetail
    /\ timer = FALSE
    /\ rendered = FALSE
    /\ partners = NoPartners
    /\ embedding = NoEmbedding
    /\ loadError = FALSE
    /\ activeTypes = NullTypes
    /\ pubsForList = <<>>
    /\ firstUpdate = NoView

\* the filter state of the page and the lists update() made of it
View == [ui |-> ui, focusedAuthorID |-> focusedAuthorID, activeTypes |-> activeTypes,
         contributingRoster |-> contributingRoster, selectedPubs |-> selectedPubs,
         pubsForList |-> pubsForList]

\* parseCSV of the body of an error response: the first line is taken as the
\* header, every other line is a row without any of the roster columns
ErrorBodyRoster == <<RosterRow("", Name(<<>>, <<>>), "", "", "", <<"", "", "", "">>)>>

\* the Promise.all callback: parse, normalise, initFilters, initYearInputs,
\* bindEvents, first update(); the publication file has n rows, the two
\* optional files are present or absent; fetchCSV resolves with the roster
\* file when it is found and with the body of the error response when not
Load(n, optional, found) ==
    /\ ~rendered
    /\ ~loadError
    /\ LET file == SubSeq(PubFile, 1, n)
           roster == normalizeRoster(IF found THEN RosterFile ELSE ErrorBodyRoster)
           dedup == normalizePubsFor(file, roster)
           perAuthor == IF optional
                        THEN normalizePubsFor(PerAuthorFile(file), roster) ELSE <<>>
           rows == IF optional THEN AuthorshipFile(file) ELSE <<>>
           u == [NoSelection EXCEPT !.appointment = DefaultAppointment(roster)]
       IN /\ rosterData' = roster
          /\ pubData' = dedup
          /\ perAuthorData' = perAuthor
          /\ authorshipData' = rows
          /\ ui' = u
          /\ update(roster, dedup, perAuthor, rows, u, focusedAuthorID, activeTypes)
    /\ UNCHANGED <<focusedAuthorID, countryDetail, timer,
                   loadError>>
    /\ firstUpdate' = View'

\* a fetch of the Promise.all rejects: the catch callback logs the error
LoadFails ==
    /\ ~rendered
    /\ ~loadError
    /\ loadError' = TRUE
    /\ UNCHANGED <<rosterData, pubData, authorshipData, ui, focusedAuthorID,
                   contributingRoster, selectedPubs, graph, homeISO3, intlSeries,
                   countryDetail, perAuthorData, timer, rendered, partners, embedding,
                   activeTypes, pubsForList, firstUpdate>>

\* "change" on one of the four multi-selects
SelectChange(dim, S) ==
    /\ rendered
    /\ S \subseteq OptionsOf(rosterData, dim)
    /\ S # ui[dim]
    /\ ui' = [ui EXCEPT ![dim] = S]
    /\ Refresh(ui', focusedAuthorID, activeTypes)
    /\ UNCHANGED <<rosterData, pubData, authorshipData, perAuthorData,
                   focusedAuthorID, countryDetail, timer,
                   loadError, firstUpdate>>

\* click on the Clear button of a multi-select
ClearClick(dim) ==
    /\ rendered
    /\ ui' = [ui EXCEPT ![dim] = IF dim = "appointment"
                                 THEN DefaultAppointment(rosterData) ELSE {}]
    /\ Refresh(ui', focusedAuthorID, activeTypes)
    /\ UNCHANGED <<rosterData, pubData, authorshipData, perAuthorData,
                   focusedAuthorID, countryDetail, timer,
                   loadError, firstUpdate>>

\* "input" on a year box
YearInput(box, y) ==
    /\ rendered
    /\ ui[box] # y
    /\ ui' = [ui EXCEPT ![box] = y]
    /\ Refresh(ui', focusedAuthorID, activeTypes)
    /\ UNCHANGED <<rosterData, pubData, authorshipData, perAuthorData,
                   focusedAuthorID, countryDetail, timer,
                   loadError, firstUpdate>>

\* "input" on the topic box: debounce(update, 200) restarts its timer
TopicInput(q) ==
    /\ rendered
    /\ ui.topic # q
    /\ ui' = [ui EXCEPT !.topic = q]
    /\ timer' = TRUE
    /\ UNCHANGED <<rosterData, pubData, authorshipData, perAuthorData, focusedAuthorID,
                   contributingRoster, selectedPubs, graph, homeISO3, intlSeries,
                   countryDetail, rendered,
                   partners, embedding, loadError,
                   activeTypes, pubsForList, firstUpdate>>

\* the timer is cleared and update() is not run
TimerDropped ==
    /\ timer
    /\ timer' = FALSE
    /\ UNCHANGED <<rosterData, pubData, authorshipData, perAuthorData, ui,
                   focusedAuthorID, countryDetail, loadError,
                   contributingRoster, selectedPubs, graph, homeISO3, intlSeries,
                   rendered, partners, embedding, activeTypes, pubsForList, firstUpdate>>

\* the debounce timer fires
TimerFire ==
    /\ timer
    /\ timer' = FALSE
    /\ Refresh(ui, focusedAuthorID, activeTypes)
    /\ UNCHANGED <<rosterData, pubData, authorshipData, perAuthorData, ui,
                   focusedAuthorID, countryDetail,
                   loadError, firstUpdate>>

\* the reset handler without its line 'activeTypes = new Set(DEFAULT_TYPE_SET)'
ResetClickKeepsTypes ==
    /\ rendered
    /\ ui' = [NoSelection EXCEPT !.appointment = DefaultAppointment(rosterData)]
    /\ focusedAuthorID' = ""
    /\ Refresh(ui', "", activeTypes)
    /\ UNCHANGED <<rosterData, pubData, authorshipData, perAuthorData,
                   countryDetail, timer,
                   loadError, firstUpdate>>

\* click on "Reset to defaults"
ResetClick ==
    /\ rendered
    /\ ui' = [NoSelection EXCEPT !.appointment = DefaultAppointment(rosterData)]
    /\ focusedAuthorID' = ""
    /\ Refresh(ui', "", DEFAULT_TYPE_SET)
    /\ UNCHANGED <<rosterData, pubData, authorshipData, perAuthorData,
                   countryDetail, timer,
                   loadError, firstUpdate>>

\* click on an author link of the faculty table (drawn from contributingRoster)
FocusClick(i) ==
    /\ rendered
    /\ i \in DOMAIN contributingRoster
    /\ focusedAuthorID' = contributingRoster[i].OpenAlexID
    /\ Refresh(ui, focusedAuthorID', activeTypes)
    /\ UNCHANGED <<rosterData, pubData, authorshipData, perAuthorData, ui,
                   countryDetail, timer,
                   loadError, firstUpdate>>

\* the trace names of the bar chart: the types of the selected publications
LegendTypes == {TypeOf(selectedPubs[i]) : i \in DOMAIN selectedPubs}

\* plotly_legendclick on the trace of type t: the type is toggled
LegendClick(t) ==
    /\ rendered
    /\ t \in LegendTypes
    /\ Refresh(ui, focusedAuthorID,
               IF t \in (IF activeTypes = NullTypes THEN DEFAULT_TYPE_SET ELSE activeTypes)
               THEN (IF activeTypes = NullTypes THEN DEFAULT_TYPE_SET ELSE activeTypes) \ {t}
               ELSE (IF activeTypes = NullTypes THEN DEFAULT_TYPE_SET ELSE activeTypes)
                        \cup {t})
    /\ UNCHANGED <<rosterData, pubData, authorshipData, perAuthorData, ui,
                   focusedAuthorID, countryDetail, timer, loadError, firstUpdate>>

\* plotly_legenddoubleclick on the trace of type t: the type is isolated
LegendDoubleClick(t) ==
    /\ rendered
    /\ t \in LegendTypes
    /\ Refresh(ui, focusedAuthorID, {t})
    /\ UNCHANGED <<rosterData, pubData, authorshipData, perAuthorData, ui,
                   focusedAuthorID, countryDetail, timer, loadError, firstUpdate>>

Next ==
    \/ \E n \in {0, MaxPubRows}, optional, found \in BOOLEAN : Load(n, optional, found)
    \/ LoadFails
    \/ \E dim \in Dimensions : \E S \in SUBSET OptionsOf(rosterData, dim) : SelectChange(dim, S)
    \/ \E dim \in Dimensions : ClearClick(dim)
    \/ \E box \in {"year_min", "year_max"} : \E y \in YearInputs : YearInput(box, y)
    \/ \E q \in TopicInputs : TopicInput(q)
    \/ TimerFire
    \/ ResetClick
    \/ \E i \in 1..Len(RosterFile) : FocusClick(i)

Spec == Init /\ [][Next]_vars

\* the choices of the page with the legend: one level at most, the upper year
\* box, a topic none of the default selection carries, the legend entries of
\* the articles and the data sets
LiveLevels == {{}, {"Professor"}}
LiveTopics == {<<>>, <<"flow">>}
LegendInputs == {"article", "dataset"}

\* the event machine with the legend of the bar chart, on the three files
NextLive ==
    \/ Load(MaxPubRows, TRUE, TRUE)
    \/ \E S \in LiveLevels : SelectChange("level", S)
    \/ \E y \in YearInputs : YearInput("year_max", y)
    \/ \E q \in LiveTopics : TopicInput(q)
    \/ TimerFire
    \/ ResetClick
    \/ \E i \in 1..Len(RosterFile) : FocusClick(i)
    \/ \E t \in LegendInputs : LegendClick(t)
    \/ \E t \in LegendInputs : LegendDoubleClick(t)

\* setTimeout runs its callback once the delay has passed, unless a keystroke
\* restarts the timer first, and a burst of keystrokes ends: weak fairness of
\* the callback, WF_vars(TimerFire), written out with 'timer' for
\* ENABLED <<TimerFire>>_vars (the callback can run exactly when the timer is
\* pending, and running it clears the timer)
TimerFairness == <>[]timer => []<><<TimerFire>>_vars

SpecLive == Init /\ [][NextLive]_vars /\ TimerFairness

----------------------------------------------------------------------------
(* SpecFocus: applyFilters with a focused author, applied to drawn files *)

\* a file row: work id, DOI, title, representative (or row) author, year, the
\* union cell and the authorship id cell
FocusPub(id, doi, title, rep, year, union, aids) ==
    [PubRow(id, rep, year, <<>>, aids, [i \in DOMAIN aids |-> "CA"],
            [i \in DOMAIN aids |-> "middle"])
       EXCEPT !.doi = doi, !.display_name = title, !.cohort_union_author_ids = union]

\* rows sharing a work id (bare and as a URL), a DOI (bare and as a URL, in
\* two spellings) or a title (in two spellings); author ids bare and as URLs
\* in the representative, union and authorship cells
FocusRows ==
    { FocusPub("W2", "", <<"genes">>, "A1", 2023, <<"A1", "A2">>, <<"A1", "A2">>),
      FocusPub("https://openalex.org/W2", "", <<"gene", "flow">>,
               "https://openalex.org/A2", 2025, <<>>, <<>>),
      FocusPub("", "10.1/X", <<"Flow">>, "X9", 2023, <<>>,
               <<"https://openalex.org/A2", "X9">>),
      FocusPub("", "https://doi.org/10.1/x", <<"genes">>, "A2", 2025, <<"A2">>, <<"A2">>),
      FocusPub("", "", <<"Flow">>, "X9", 2023, <<"https://openalex.org/A2">>, <<"X9">>),
      FocusPub("", "", <<"flow">>, "A2", 2021, <<"A1", "A2">>, <<>>),
      FocusPub("W2", "", <<"flow">>, "A2", 2023, <<"A2">>, <<"A2">>) }

\* year boxes, topic box and selects as the page may hold them
FocusUis ==
    { NoSelection,
      [NoSelection EXCEPT !.year_max = 2023],
      [NoSelection EXCEPT !.topic = <<"genes">>],
      [NoSelection EXCEPT !.level = {"Assistant"}, !.year_min = 2023] }

InitFocus ==
    /\ rosterData = GraphRoster
    /\ \E n \in 1..MaxFocusPubs : \E rows \in [1..n -> FocusRows] :
          /\ pubData = normalizePubsFor(rows, GraphRoster)
          /\ perAuthorData \in {<<>>, pubData}
    /\ focusedAuthorID \in {"A1", "A2"}
    /\ ui \in FocusUis
    /\ authorshipData = <<>>
    /\ contributingRoster = <<>>
    /\ selectedPubs = <<>>
    /\ graph = NoGraph
    /\ homeISO3 = ""
    /\ intlSeries = NoSeries
    /\ countryDetail = NoDetail
    /\ timer = FALSE
    /\ rendered = FALSE
    /\ partners = NoPartners
    /\ embedding = NoEmbedding
    /\ loadError = FALSE
    /\ activeTypes = NullTypes
    /\ pubsForList = <<>>
    /\ firstUpdate = NoView

\* update(): const { contributingRoster, selectedPubs } = applyFilters()
FocusedFilter ==
    /\ ~rendered
    /\ \E r \in {applyFilters(rosterData, pubData, perAuthorData, ui, focusedAuthorID)} :
          /\ contributingRoster' = r.contributingRoster
          /\ selectedPubs' = r.selectedPubs
    /\ rendered' = TRUE
    /\ UNCHANGED <<rosterData, pubData, authorshipData, ui, focusedAuthorID,
                   graph, homeISO3, intlSeries, countryDetail, perAuthorData, timer,
                   partners, embedding, loadError,
                   activeTypes, pubsForList, firstUpdate>>

NextFocus == FocusedFilter

SpecFocus == InitFocus /\ [][NextFocus]_vars

----------------------------------------------------------------------------
(* Claims about the co-authorship graph (checked under SpecGraph) *)

RosterIds == {contributingRoster[i].OpenAlexID : i \in DOMAIN contributingRoster}
ByWorkNow == ByWork(contributingRoster, selectedPubs, authorshipData)
EdgesBetween(a, b) == {i \in DOMAIN graph.edges : {graph.edges[i].a, graph.edges[i].b} = {a, b}}
WorksWithPair(a, b) == {k \in DOMAIN ByWorkNow : {a, b} \subseteq ByWorkNow[k].ids}

\* C1: every edge of the graph, on the preferred and on the fallback path, has
\* both of its endpoint ids among the ids of the contributing roster passed in.
C1_EdgeEndpointsInRoster ==
    rendered =>
        \A i \in DOMAIN graph.edges :
            graph.edges[i].a \in RosterIds /\ graph.edges[i].b \in RosterIds

\* an edge was built although a selected work's authorship rows name a roster
\* member who is not in the contributing roster
C1_Witness ==
    /\ rendered
    /\ graph.edges # <<>>
    /\ \E i \in DOMAIN authorshipData :
          /\ idNorm(authorshipData[i].author_openalex_id) \notin RosterIds
          /\ workNorm(authorshipData[i].id) \in SelectedWorkIDs(selectedPubs)
          /\ workNorm(authorshipData[i].id) \in {ByWorkNow[k].wid : k \in DOMAIN ByWorkNow}

\* C2: for every unordered pair {a, b} there is an edge a-b iff some work's
\* cohort id set contains both; there is at most one such edge, its weight is the
\* number of those works, and its drill-down list holds exactly the
\* representative (first selected) row of each of those works, once.
C2_EdgeIffSharedWork ==
    rendered =>
        \A a \in Range(IdOrder), b \in Range(IdOrder) :
            a # b =>
                LET W == WorksWithPair(a, b)
                    E == EdgesBetween(a, b)
                IN /\ (E # {}) <=> (W # {})
                   /\ Cardinality(E) <= 1
                   /\ \A i \in E :
                        LET e == graph.edges[i]
                        IN /\ e.count = Cardinality(W)
                           /\ Len(e.pubs) = e.count
                           /\ \A k \in W : \E j \in DOMAIN e.pubs :
                                 e.pubs[j] = widToPub(selectedPubs, ByWorkNow[k].wid)
                           /\ \A j \in DOMAIN e.pubs :
                                 /\ widOf(e.pubs[j]) \in {ByWorkNow[k].wid : k \in W}
                                 /\ \A j2 \in DOMAIN e.pubs :
                                       widOf(e.pubs[j2]) = widOf(e.pubs[j]) => j2 = j

\* a pair shared by two works next to a roster pair that shares none
C2_Witness ==
    /\ rendered
    /\ \E i \in DOMAIN graph.edges : graph.edges[i].count = 2 /\ Len(graph.edges[i].pubs) = 2
    /\ \E a \in Range(IdOrder), b \in Range(IdOrder) :
          a # b /\ {a, b} \subseteq RosterIds /\ EdgesBetween(a, b) = {}

\* the scenario of the specification: roster [A1, A2], W1 by A1 and A2, W2 by A1
C3_Scenario ==
    /\ contributingRoster = SubSeq(GraphRoster, 1, 2)
    /\ selectedPubs = SubSeq(pubData, 1, 2)
    /\ \/ authorshipData = << AuthorshipRow("W1", "A1"),
                              AuthorshipRow("W1", "https://openalex.org/A2"),
                              AuthorshipRow("https://openalex.org/W2", "A1") >>
       \/ /\ authorshipData = <<>>
          /\ selectedPubs[1].authors = <<ALee, BobVanDyk>>
          /\ selectedPubs[2].authors = <<AnnLee>>

\* C3: the nodes are exactly the ids that occur in an edge, each once; a node's
\* degree is the sum of the weights of its incident edges; and the scenario
\* gives nodes A1 and A2 of degree 1 and the single edge A1-A2 of weight 1.
C3_NodesAndDegrees ==
    rendered =>
        LET E == graph.edges
            N == graph.nodes
            incident(id) == {i \in DOMAIN E : E[i].a = id \/ E[i].b = id}
            RECURSIVE weightSum(_)
            weightSum(S) == IF S = {} THEN 0
                            ELSE LET i == CHOOSE x \in S : TRUE
                                 IN E[i].count + weightSum(S \ {i})
        IN /\ {N[i].id : i \in DOMAIN N} = UNION {{E[i].a, E[i].b} : i \in DOMAIN E}
           /\ \A i, j \in DOMAIN N : N[i].id = N[j].id => i = j
           /\ \A i \in DOMAIN N : N[i].deg = weightSum(incident(N[i].id))
           /\ C3_Scenario =>
                 /\ Len(N) = 2 /\ Len(E) = 1
                 /\ E[1].a = "A1" /\ E[1].b = "A2" /\ E[1].count = 1
                 /\ \A i \in DOMAIN N : N[i].deg = 1

\* the scenario has been computed on the authorship-projection path
C3_Witness == rendered /\ C3_Scenario /\ authorshipData # <<>>

----------------------------------------------------------------------------
(* Claims about the international classifier (checked under SpecIntl) *)

\* the parsed authorships of the k-th selected publication
AuthOf(k) == parseAuthorships(selectedPubs[k])
AuthIdx(k) == DOMAIN AuthOf(k).ids
PosOf(k, i) == toLowerCase(AuthOf(k).position[i])
CohortAt(k, i) == AuthOf(k).ids[i] # "" /\ AuthOf(k).ids[i] \in RosterIds
IntlAt(k, i) == AuthOf(k).countries[i] # "" /\ AuthOf(k).countries[i] # homeISO3
CohortFLOn(k) == \E i \in AuthIdx(k) : CohortAt(k, i) /\ PosOf(k, i) \in {"first", "last"}
CohortMOn(k) == \E i \in AuthIdx(k) : CohortAt(k, i) /\ PosOf(k, i) = "middle"
IntlCountriesOn(k) == {AuthOf(k).countries[i] : i \in {j \in AuthIdx(k) : IntlAt(k, j)}}
IntlFLCountriesOn(k) ==
    {AuthOf(k).countries[i] :
        i \in {j \in AuthIdx(k) : IntlAt(k, j) /\ PosOf(k, j) \in {"first", "last"}}}
\* what computeIntlLinks credits on the k-th selected publication
CreditedOn(k) == creditedThisPaper(selectedPubs[k], CohortIDs(contributingRoster), homeISO3)
SeriesCount(c) ==
    IF c \in Range(intlSeries.iso3)
    THEN intlSeries.values[CHOOSE i \in DOMAIN intlSeries.iso3 : intlSeries.iso3[i] = c]
    ELSE 0

\* C4 (Rule 1): on every selected publication with a cohort author in first or
\* last position, the country of every international authorship, whatever its
\* position, is credited on that publication and so appears in the series.
C4_Rule1CreditsEveryIntlCountry ==
    rendered =>
        \A k \in DOMAIN selectedPubs :
            CohortFLOn(k) =>
                \A j \in AuthIdx(k) :
                    IntlAt(k, j) => /\ AuthOf(k).countries[j] \in CreditedOn(k)
                                    /\ SeriesCount(AuthOf(k).countries[j]) >= 1

\* a cohort author in last position, an international co-author in the middle
\* and one without position, of two countries, both credited
C4_Witness ==
    /\ rendered
    /\ \E k \in DOMAIN selectedPubs :
          /\ CohortFLOn(k)
          /\ \E i, j \in AuthIdx(k) :
                /\ IntlAt(k, i) /\ PosOf(k, i) = "middle"
                /\ IntlAt(k, j) /\ PosOf(k, j) = ""
                /\ AuthOf(k).countries[i] # AuthOf(k).countries[j]
                /\ {AuthOf(k).countries[i], AuthOf(k).countries[j]} \subseteq Range(intlSeries.iso3)

\* C5 (Rule 2 and the union): the credited set of every selected publication is
\* the union of the Rule 1 set (all international countries, if a cohort author
\* is first/last) and the Rule 2 set (the international first/last countries,
\* if a cohort author is middle); with cohort authors in the middle only it is
\* exactly the international first/last countries, and without a cohort author
\* in first, last or middle position it is empty.
C5_Rule2AndUnion ==
    rendered =>
        /\ \A k \in DOMAIN selectedPubs :
              LET R1 == IF CohortFLOn(k) THEN IntlCountriesOn(k) ELSE {}
                  R2 == IF CohortMOn(k) THEN IntlFLCountriesOn(k) ELSE {}
              IN /\ CreditedOn(k) = R1 \cup R2
                 /\ (~CohortFLOn(k) /\ CohortMOn(k)) => CreditedOn(k) = IntlFLCountriesOn(k)
                 /\ (~CohortFLOn(k) /\ ~CohortMOn(k)) => CreditedOn(k) = {}
        /\ Range(intlSeries.iso3) = UNION {CreditedOn(k) : k \in DOMAIN selectedPubs}

\* cohort author in the middle only: the international first author's country
\* is credited, the international middle author's country is not
C5_Witness ==
    /\ rendered
    /\ \E k \in DOMAIN selectedPubs :
          /\ ~CohortFLOn(k) /\ CohortMOn(k)
          /\ CreditedOn(k) # {}
          /\ IntlCountriesOn(k) \ CreditedOn(k) # {}
          /\ Len(selectedPubs) = 1
          /\ Range(intlSeries.iso3) = IntlFLCountriesOn(k)

\* C6: a publication is credited with at most as many countries as it has
\* distinct international countries, never with the home country, and adds at
\* most one to a country's count: every count of the series is the number of
\* selected publications crediting the country (so at most their number), the
\* series lists no country twice, and total is the sum of the counts.
C6_CreditBounds ==
    rendered =>
        /\ \A k \in DOMAIN selectedPubs :
              /\ Cardinality(CreditedOn(k)) <= Cardinality(IntlCountriesOn(k))
              /\ homeISO3 \notin CreditedOn(k)
        /\ \A i \in DOMAIN intlSeries.iso3 :
              /\ intlSeries.values[i] =
                    Cardinality({k \in DOMAIN selectedPubs : intlSeries.iso3[i] \in CreditedOn(k)})
              /\ intlSeries.values[i] <= Len(selectedPubs)
              /\ intlSeries.iso3[i] # homeISO3
              /\ \A j \in DOMAIN intlSeries.iso3 : intlSeries.iso3[j] = intlSeries.iso3[i] => j = i
        /\ Len(intlSeries.values) = Len(intlSeries.iso3)
        /\ intlSeries.total = SumSeq(intlSeries.values)

\* two authorship rows of one publication carry the same credited country, and
\* a second publication credits it again
C6_Witness ==
    /\ rendered
    /\ Len(selectedPubs) = 2
    /\ \E k \in DOMAIN selectedPubs : \E i, j \in AuthIdx(k) :
          /\ i # j /\ IntlAt(k, i) /\ IntlAt(k, j)
          /\ AuthOf(k).countries[i] = AuthOf(k).countries[j]
          /\ AuthOf(k).countries[i] \in CreditedOn(k)
          /\ SeriesCount(AuthOf(k).countries[i]) = 2
    /\ intlSeries.total > 2

\* the cohort authorships that carry a country: publication, index, country
TalliedAt ==
    UNION {{[k |-> k, i |-> i, c |-> AuthOf(k).countries[i]] :
               i \in {j \in AuthIdx(k) : CohortAt(k, j) /\ AuthOf(k).countries[j] # ""}} :
           k \in DOMAIN selectedPubs}
CohortTally(c) == Cardinality({t \in TalliedAt : t.c = c})

\* C7: the home country has a maximal tally among the countries of the cohort
\* authorships; of several countries with that tally it is the one met first;
\* without any cohort authorship carrying a country it is "CAN"; tallies USA=3
\* and GBR=1 give USA.
C7_HomeCountry ==
    rendered =>
        LET T == TalliedAt
            tally(c) == Cardinality({t \in T : t.c = c})
            before(t, u) == t.k < u.k \/ (t.k = u.k /\ t.i < u.i)
            seenBefore(c, d) ==
                \E t \in T : t.c = c /\ \A u \in T : u.c = d => before(t, u)
        IN /\ T = {} => homeISO3 = "CAN"
           /\ T # {} =>
                 /\ tally(homeISO3) >= 1
                 /\ \A c \in {t.c : t \in T} :
                       /\ tally(c) <= tally(homeISO3)
                       /\ (c # homeISO3 /\ tally(c) = tally(homeISO3))
                             => seenBefore(homeISO3, c)
           /\ (tally("USA") = 3 /\ tally("GBR") = 1 /\ Cardinality(T) = 4)
                 => homeISO3 = "USA"

\* the scenario of the specification: tallies USA=3 and GBR=1
C7_Witness ==
    /\ rendered
    /\ CohortTally("USA") = 3 /\ CohortTally("GBR") = 1 /\ Cardinality(TalliedAt) = 4
    /\ homeISO3 = "USA"

\* C8: the publications showCountryDetail(C) reports are exactly the selected
\* publications on which computeIntlLinks credited C in the same cycle, each
\* once, so their number is C's count in the series; for the home country and
\* for a country absent from the series there is none.
C8_DetailAgreesWithSeries ==
    (rendered /\ countryDetail.iso3 # "") =>
        LET C == countryDetail.iso3
            M == countryDetail.matched
            expected == {k \in DOMAIN selectedPubs : C \in CreditedOn(k)}
        IN /\ {M[i].pub : i \in DOMAIN M} = expected
           /\ Len(M) = Cardinality(expected)
           /\ Len(M) = SeriesCount(C)
           /\ (C = homeISO3 \/ C \notin Range(intlSeries.iso3)) => M = <<>>

\* a clicked country credited on two of three selected publications
C8_Witness ==
    /\ rendered
    /\ Len(countryDetail.matched) = 2
    /\ Len(selectedPubs) = 3
    /\ SeriesCount(countryDetail.iso3) = 2


----------------------------------------------------------------------------
(* Claims about the filter pipeline (checked under Spec) *)

Unfocused == rendered /\ focusedAuthorID = ""

\* the values of a roster member in a dimension
ValuesIn(r, dim) ==
    CASE dim = "level" -> {r.Level}
      [] dim = "category" -> {r.Category}
      [] dim = "appointment" -> {r.Appointment}
      [] OTHER -> Range(r.RGs)

\* nothing is selected in the dimension, or the member has a selected value
DimensionAdmits(r, dim) == ui[dim] = {} \/ ValuesIn(r, dim) \cap ui[dim] # {}

MatchesSelections(r) == \A dim \in Dimensions : DimensionAdmits(r, dim)

\* the selected publications whose representative author is the member
SelectedOf(r) ==
    {i \in DOMAIN selectedPubs : selectedPubs[i].author_openalex_id = r.OpenAlexID}

\* C9: in unfocused mode every selected publication's representative author is
\* a member of the contributing roster; every contributing member is a roster
\* member that passes the four categorical filters and is the representative
\* author of a selected publication; a roster member that passes the filters
\* but has no selected publication is not in the contributing roster; and
\* rosterData is still the normalised rows the load parsed.
C9_ConsistentPair ==
    Unfocused =>
        /\ \A i \in DOMAIN selectedPubs :
              selectedPubs[i].author_openalex_id \in RosterIds
        /\ \A j \in DOMAIN contributingRoster :
              /\ contributingRoster[j] \in Range(rosterData)
              /\ MatchesSelections(contributingRoster[j])
              /\ SelectedOf(contributingRoster[j]) # {}
        /\ \A k \in DOMAIN rosterData :
              (MatchesSelections(rosterData[k]) /\ SelectedOf(rosterData[k]) = {})
                  => rosterData[k] \notin Range(contributingRoster)
        /\ rosterData \in {normalizeRoster(RosterFile), normalizeRoster(ErrorBodyRoster)}

\* C9 witness: an unfocused cycle with a non-empty selection, a publication
\* of the file dropped because its representative author is not admitted, and
\* a roster member that passes the filters without a selected publication
C9_Witness ==
    /\ Unfocused
    /\ selectedPubs # <<>>
    /\ Len(selectedPubs) < Len(pubData)
    /\ \E k \in DOMAIN rosterData :
          /\ MatchesSelections(rosterData[k])
          /\ SelectedOf(rosterData[k]) = {}
          /\ \E i \in DOMAIN pubData :
                pubData[i].author_openalex_id = rosterData[k].OpenAlexID

\* C10: in unfocused mode a roster member is in the filtered roster iff every
\* one of the four dimensions either has no selected value or has a selected
\* value the member carries (for research groups: one of the member's tags);
\* and, once the topic box is settled, the members with a selected
\* publication are the admitted members with a publication of the year and
\* topic window.
C10_FilteredRosterIffMatches ==
    Unfocused =>
        /\ \A k \in DOMAIN rosterData :
              rosterData[k] \in Range(FilteredRoster(rosterData, ui))
                  <=> MatchesSelections(rosterData[k])
        /\ ~timer =>
              \A k \in DOMAIN rosterData :
                  SelectedOf(rosterData[k]) # {}
                      <=> /\ MatchesSelections(rosterData[k])
                          /\ \E p \in Range(YearTopicPubs(pubData, ui)) :
                                p.author_openalex_id = rosterData[k].OpenAlexID

\* C10 witness: values selected in two dimensions or more; a member with two
\* group tags of which one only is selected is admitted and has a selected
\* publication; another member is refused by exactly one dimension
C10_Witness ==
    /\ Unfocused
    /\ ~timer
    /\ Cardinality({dim \in Dimensions : ui[dim] # {}}) >= 2
    /\ \E a, b \in DOMAIN rosterData :
          /\ MatchesSelections(rosterData[a])
          /\ Range(rosterData[a].RGs) \cap ui.research_group # {}
          /\ Range(rosterData[a].RGs) \ ui.research_group # {}
          /\ SelectedOf(rosterData[a]) # {}
          /\ Cardinality({dim \in Dimensions : ~DimensionAdmits(rosterData[b], dim)}) = 1


----------------------------------------------------------------------------
(* Claims about the partner institutions and the authorship arrays         *)
(* (checked under SpecPartners)                                            *)

CohortNow == CohortIDs(contributingRoster)

\* the first institutions listed on the selected publication k
RorsOn(k) == Range(AuthOf(k).instRor) \ {""}

\* the authorship rows of publication k held by cohort authors
CohortRowsOn(k) == {i \in DOMAIN AuthOf(k).ids : AuthOf(k).ids[i] \in CohortNow}

\* C11: the ranked rows are distinct institutions, and the credit count of each
\* is at most the number of selected publications that list the institution
\* at all, hence at most the number of selected publications: no publication
\* adds more than 1, however many cohort authors and rows reach it.
C11_OneCreditPerPublication ==
    rendered =>
        \A x \in DOMAIN partners.rows :
            LET r == partners.rows[x]
            IN /\ r.n >= 1
               /\ r.n <= Cardinality({k \in DOMAIN selectedPubs : r.ror \in RorsOn(k)})
               /\ r.n <= Len(selectedPubs)
               /\ \A y \in DOMAIN partners.rows : partners.rows[y].ror = r.ror => y = x

\* C11 witness: a ranked institution listed on two rows of a publication that
\* has two cohort authors, and credited twice over the selection
C11_Witness ==
    /\ rendered
    /\ \E x \in DOMAIN partners.rows : \E k \in DOMAIN selectedPubs :
          /\ partners.rows[x].n = 2
          /\ Cardinality(CohortRowsOn(k)) >= 2
          /\ Cardinality({j \in DOMAIN AuthOf(k).instRor :
                             AuthOf(k).instRor[j] = partners.rows[x].ror}) >= 2

\* a cohort author of publication k whose own institution is another one has
\* another authorship row of k at the institution
ReachedOn(k, ror) ==
    \E i \in CohortRowsOn(k) : \E j \in DOMAIN AuthOf(k).ids :
        /\ j # i
        /\ AuthOf(k).instRor[j] = ror
        /\ AuthOf(k).instRor[i] # ror

\* the institution is the own (first-listed) institution of a cohort author of k
OwnOn(k, ror) == \E i \in CohortRowsOn(k) : AuthOf(k).instRor[i] = ror

\* C12 as claimed: no ranked entry is the home institution, and no publication
\* credits an institution that is the own institution of one of its cohort
\* authors: the credits of a ranked institution come from publications where
\* it is nobody's own institution.
C12_NoOwnInstitutionCredited ==
    rendered =>
        \A x \in DOMAIN partners.rows :
            LET r == partners.rows[x]
            IN /\ r.ror # partners.homeROR
               /\ r.n <= Cardinality({k \in DOMAIN selectedPubs :
                                         r.ror \in RorsOn(k) /\ ~OwnOn(k, r.ror)})

\* C12 amended: no ranked entry is the home institution, and a publication
\* credits an institution exactly when one of its cohort authors, whose own
\* institution is another one, has another authorship row at it: the credit
\* count of a ranked institution is the number of such publications, and every
\* institution so reached, other than the home institution, is ranked.
C12_OwnExcludedPerAuthor ==
    rendered =>
        /\ \A x \in DOMAIN partners.rows :
              LET r == partners.rows[x]
              IN /\ r.ror # ""
                 /\ r.ror # partners.homeROR
                 /\ r.n = Cardinality({k \in DOMAIN selectedPubs : ReachedOn(k, r.ror)})
        /\ \A k \in DOMAIN selectedPubs : \A ror \in RorsOn(k) :
              (ReachedOn(k, ror) /\ ror # partners.homeROR)
                  => \E x \in DOMAIN partners.rows : partners.rows[x].ror = ror

\* C12 witness: a home institution is inferred and listed on a co-author row; a
\* cohort author's own institution is on another row of the same publication
\* without being reached there; and a ranked institution is credited
C12_Witness ==
    /\ rendered
    /\ partners.homeROR # ""
    /\ partners.rows # <<>>
    /\ \E k \in DOMAIN selectedPubs :
          \E i \in CohortRowsOn(k) : \E j \in DOMAIN AuthOf(k).ids :
              /\ j # i
              /\ AuthOf(k).ids[j] \notin CohortNow
              /\ AuthOf(k).instRor[j] = partners.homeROR
    /\ \E k \in DOMAIN selectedPubs :
          \E i \in CohortRowsOn(k) : \E j \in DOMAIN AuthOf(k).ids :
              /\ j # i
              /\ AuthOf(k).instRor[i] # ""
              /\ AuthOf(k).instRor[i] # partners.homeROR
              /\ AuthOf(k).instRor[j] = AuthOf(k).instRor[i]
              /\ ~ReachedOn(k, AuthOf(k).instRor[i])

AuthorshipArrays ==
    {"ids", "names", "isCorresponding", "position", "instRor", "instName", "instCountry3"}

\* the arrays of the selected publication k before padding
MappedOf(k) == mappedAuthorships(selectedPubs[k])

\* C13: for every selected publication, each of the seven arrays returned by
\* parseAuthorships has the length of the countries array.
C13_ArraysAligned ==
    \A k \in DOMAIN selectedPubs : \A f \in AuthorshipArrays :
        Len(AuthOf(k)[f]) = Len(AuthOf(k).countries)

\* C13 witness: a publication with an array longer and an array shorter than
\* its countries array
C13_Witness ==
    /\ rendered
    /\ \E k \in DOMAIN selectedPubs :
          /\ Len(MappedOf(k).countries) >= 1
          /\ Len(MappedOf(k).ids) > Len(MappedOf(k).countries)
          /\ Len(MappedOf(k).instRor) < Len(MappedOf(k).countries)

\* C14 as claimed: every element of every authorship array is still present,
\* at the same index, in the array parseAuthorships returns.
C14_NeverTruncates ==
    rendered =>
        \A k \in DOMAIN selectedPubs : \A f \in AuthorshipArrays :
            \A i \in DOMAIN MappedOf(k)[f] :
                /\ i \in DOMAIN AuthOf(k)[f]
                /\ AuthOf(k)[f][i] = MappedOf(k)[f][i]

----------------------------------------------------------------------------
(* C15, C16: determinism of a cycle, under Spec *)

\* what a cycle reads
Inputs == <<rosterData, pubData, perAuthorData, authorshipData, ui, focusedAuthorID>>

Outputs == <<graph, homeISO3, intlSeries, partners, embedding>>

\* C16 as claimed: a cycle run from the inputs of the cycle before it leaves
\* the graph, the country-link series, the partner ranking and the embedding
\* with its coordinates and eigenvalues as they were.
C16_CyclesDeterministic ==
    [][(rendered /\ ~timer /\ ~timer' /\ Inputs' = Inputs) => Outputs' = Outputs]_vars

----------------------------------------------------------------------------
(* C17 - C19: the topic embedding, under SpecEmbed *)

\* the terms a selected publication carries: topic and subfield when one of
\* them is given, else its concepts; lower case, longer than one character
TermsOn(k) ==
    LET p == selectedPubs[k]
    IN IF p.primary_topic_display_name # "" \/ p.primary_topic_subfield_display_name # ""
       THEN {lowerTerm(p.primary_topic_display_name),
             lowerTerm(p.primary_topic_subfield_display_name)} \cap LongTerms
       ELSE {lowerTerm(c) : c \in Range(p.concepts_list)} \cap LongTerms

\* the topic set of a cohort author in the current selection
TopicSetOf(id) ==
    UNION {TermsOn(k) : k \in {n \in DOMAIN selectedPubs :
              id \in {stripAuthorsPrefix(a) : a \in Range(selectedPubs[n].authorships_author_id)}}}

\* the cohort authors with a non-empty topic set in the current selection
TopicBearing == {id \in CohortNow : TopicSetOf(id) # {}}

EmbeddedIds == {embedding.authors[i].id : i \in DOMAIN embedding.authors}

\* C17: the embedder embeds exactly the cohort authors whose topic set in the
\* current selection is non-empty; with fewer than two of them it reports the
\* insufficient-data outcome, computes no coordinates and no eigenvalues, and
\* the rest of the update (the partner ranking) is still carried out.
C17_OnlyTopicBearingAuthors ==
    rendered =>
        /\ embedding.status \in {"drawn", "insufficient"}
        /\ embedding.status = "drawn" <=> Cardinality(TopicBearing) >= 2
        /\ embedding.status = "drawn" =>
              /\ EmbeddedIds = TopicBearing
              /\ Len(embedding.authors) = Cardinality(TopicBearing)
              /\ \A i \in DOMAIN embedding.authors :
                    embedding.authors[i].terms = TopicSetOf(embedding.authors[i].id)
              /\ Len(embedding.x) = Len(embedding.authors)
              /\ Len(embedding.y) = Len(embedding.authors)
        /\ embedding.status = "insufficient" =>
              /\ embedding.authors = <<>>
              /\ embedding.x = <<>> /\ embedding.y = <<>>
              /\ embedding.eigenvalues = <<>>
        /\ partners = drawTopRORPartners(contributingRoster, selectedPubs)

\* C17 witness: exactly one cohort author has topics, another cohort author of
\* the selection has none, the insufficient-data outcome is shown and the
\* partner ranking drawn after it is not empty
C17_Witness ==
    /\ rendered
    /\ Cardinality(TopicBearing) = 1
    /\ \E k \in DOMAIN selectedPubs :
          \E id \in CohortNow \ TopicBearing :
              id \in Range(selectedPubs[k].authorships_author_id)
    /\ embedding.status = "insufficient"
    /\ partners.rows # <<>>

\* the topic sets of the cohort, empty ones included
CohortTopicSets == {TopicSetOf(id) : id \in CohortNow}

IsSymmetricZeroDiagonal(D) ==
    \A i, j \in DOMAIN D : D[i][j] = D[j][i] /\ D[i][i] = 0

\* C18: over the topic sets of the cohort, jaccardDistance is symmetric, lies
\* in [0, 1] and is 0 for identical sets, two empty sets included; the distance
\* matrix of the embedded authors is symmetric with a zero diagonal.
C18_JaccardSymmetricBounded ==
    rendered =>
        /\ \A A, B \in CohortTopicSets :
              /\ jaccardDistance(A, B) = jaccardDistance(B, A)
              /\ jaccardDistance(A, B) >= 0
              /\ jaccardDistance(A, B) <= Scale
              /\ A = B => jaccardDistance(A, B) = 0
        /\ jaccardDistance({}, {}) = 0
        /\ IsSymmetricZeroDiagonal(DistanceMatrix(embedding.authors))

\* C18 witness: three authors are embedded, two of them with the same topic
\* set and the third at a distance strictly between 0 and 1 of them
C18_Witness ==
    /\ rendered
    /\ embedding.status = "drawn"
    /\ \E i, j, k \in DOMAIN embedding.authors :
          /\ i # j
          /\ embedding.authors[i].terms = embedding.authors[j].terms
          /\ DistanceMatrix(embedding.authors)[i][k] > 0
          /\ DistanceMatrix(embedding.authors)[i][k] < Scale

IsAllZero(D) == \A i, j \in DOMAIN D : D[i][j] = 0

----------------------------------------------------------------------------
(* C20: outcomes of the initial load, under Spec *)

NothingDerived ==
    /\ ~rendered
    /\ contributingRoster = <<>> /\ selectedPubs = <<>>
    /\ graph = NoGraph /\ intlSeries = NoSeries
    /\ partners = NoPartners /\ embedding = NoEmbedding

\* the roster the page holds is the one of the roster file
RosterFileLoaded == rosterData = normalizeRoster(RosterFile)

\* C20 as claimed: when a primary file is absent or its load fails, no update
\* cycle runs and nothing is derived; when only the optional files are absent
\* the load completes, the graph is built by name matching and the focus
\* filter selects from the dedup set.
C20_PrimaryAbsenceFatal ==
    /\ loadError => NothingDerived
    /\ ~RosterFileLoaded => NothingDerived
    /\ (rendered /\ ~timer /\ authorshipData = <<>>) =>
          graph = computeCoauthorGraph(contributingRoster, selectedPubs, <<>>)
    /\ (rendered /\ ~timer /\ focusedAuthorID # "" /\ perAuthorData = <<>>) =>
          \A k \in DOMAIN selectedPubs : selectedPubs[k] \in Range(pubData)

----------------------------------------------------------------------------
(* Claims about the country panel (checked under SpecIntl) *)

DetailShown == rendered /\ countryDetail.iso3 # ""

\* the rows of publication k that are international for the clicked country
TargetRowsOn(k) ==
    {i \in AuthIdx(k) : IntlAt(k, i) /\ homeISO3 # ""
                            /\ AuthOf(k).countries[i] = countryDetail.iso3}
CohortFLRowsOn(k) == {i \in AuthIdx(k) : CohortAt(k, i) /\ PosOf(k, i) \in {"first", "last"}}
CohortMRowsOn(k) == {i \in AuthIdx(k) : CohortAt(k, i) /\ PosOf(k, i) = "middle"}
Rule1For(k) == CohortFLRowsOn(k) # {} /\ TargetRowsOn(k) # {}
Rule2For(k) ==
    /\ CohortMRowsOn(k) # {}
    /\ \E i \in TargetRowsOn(k) : PosOf(k, i) \in {"first", "last"}
AuthorsAt(k, rows) == {AuthOf(k).ids[i] : i \in rows}
ReturnedAuthors(m) == AuthorsAt(m.pub, Range(m.cohortIdx))
MatchedEntries == Range(countryDetail.matched)

\* C21 as stated: the cohort authors returned for a qualifying publication are
\* its first/last cohort authors when Rule 1 is satisfied for the clicked
\* country and its middle cohort authors when Rule 2 is, both groups when both
\* rules are satisfied, and an author is counted once per publication.
C21_BothGroupsReturned ==
    DetailShown =>
        /\ \A m \in MatchedEntries :
              ReturnedAuthors(m) =
                  (IF Rule1For(m.pub) THEN AuthorsAt(m.pub, CohortFLRowsOn(m.pub)) ELSE {})
                  \cup (IF Rule2For(m.pub) THEN AuthorsAt(m.pub, CohortMRowsOn(m.pub)) ELSE {})
        /\ \A nm \in DOMAIN countryDetail.authorHitCounts :
              countryDetail.authorHitCounts[nm]
                  = Cardinality({i \in DOMAIN countryDetail.matched :
                                    nm \in ReturnedAuthors(countryDetail.matched[i])})

\* C21 amended: the cohort authors returned for a qualifying publication are
\* its first/last cohort authors whenever Rule 1 is satisfied for the clicked
\* country (whether or not Rule 2 is too) and its middle cohort authors only
\* when Rule 1 is not satisfied and Rule 2 is; every returned author is
\* counted once per qualifying publication that returns them.
C21_TriggeringRuleAuthors ==
    DetailShown =>
        /\ \A m \in MatchedEntries :
              /\ Rule1For(m.pub) \/ Rule2For(m.pub)
              /\ ReturnedAuthors(m) =
                    IF Rule1For(m.pub) THEN AuthorsAt(m.pub, CohortFLRowsOn(m.pub))
                    ELSE AuthorsAt(m.pub, CohortMRowsOn(m.pub))
        /\ DOMAIN countryDetail.authorHitCounts = UNION {ReturnedAuthors(m) : m \in MatchedEntries}
        /\ \A nm \in DOMAIN countryDetail.authorHitCounts :
              countryDetail.authorHitCounts[nm]
                  = Cardinality({i \in DOMAIN countryDetail.matched :
                                    nm \in ReturnedAuthors(countryDetail.matched[i])})

\* a qualifying publication satisfying both rules with distinct cohort authors
\* in the two groups, and one whose cohort author holds two first/last rows
C21_Witness ==
    /\ DetailShown
    /\ \E m \in MatchedEntries :
          /\ Rule1For(m.pub) /\ Rule2For(m.pub)
          /\ AuthorsAt(m.pub, CohortMRowsOn(m.pub)) \ ReturnedAuthors(m) # {}
    /\ \E m \in MatchedEntries :
          Len(m.cohortIdx) = 2 /\ Cardinality(ReturnedAuthors(m)) = 1

\* the international rows of the parsed authorships a all belong to cohort
\* authors
OnlyOwnIntlIn(a) ==
    /\ \E i \in DOMAIN a.ids : a.countries[i] # "" /\ a.countries[i] # homeISO3
    /\ \A i \in DOMAIN a.ids :
          (a.countries[i] # "" /\ a.countries[i] # homeISO3) =>
              (a.ids[i] # "" /\ a.ids[i] \in RosterIds)

\* the international rows of publication k all belong to cohort authors
OnlyOwnIntl(k) == \E a \in {AuthOf(k)} : OnlyOwnIntlIn(a)

----------------------------------------------------------------------------
(* Claims about the focused filter (checked under SpecFocus and Spec) *)

Focused == rendered /\ focusedAuthorID # ""
FocusedId == normalizeID(focusedAuthorID)

\* the file the focused selection is taken from
SourceNow == IF perAuthorData # <<>> THEN perAuthorData ELSE pubData

\* the row lies within the year bounds and matches the topic query
InWindow(p) ==
    /\ p.publication_year >= YearBounds(ui).min
    /\ p.publication_year <= YearBounds(ui).max
    /\ (ui.topic # <<>> => fuzzyQueryMatch(ui.topic, p.topic_haystack))

\* the derived work key: work id, else DOI, else normalized title
KeyOf(p) ==
    IF normalizeID(p.id) # "" THEN <<"id", normalizeID(p.id)>>
    ELSE IF p.doi # "" THEN <<"doi", bareDoi(p.doi)>>
    ELSE <<"t", normalizeText(p.display_name)>>

\* the ids written in a cell, whatever their form
IdsIn(cell) == {normalizeID(x) : x \in Range(cell)} \ {""}

\* the source rows that survive the filters before the deduplication
Survivors ==
    {i \in DOMAIN SourceNow :
        /\ InWindow(SourceNow[i])
        /\ IF perAuthorData # <<>>
           THEN normalizeID(SourceNow[i].author_openalex_id) = FocusedId
           ELSE \/ normalizeID(SourceNow[i].author_openalex_id) = FocusedId
                \/ FocusedId \in Range(SourceNow[i].cohort_union_author_ids)
                \/ FocusedId \in IdsIn(SourceNow[i].authorships_author_id)}

\* C22: with a focused author, no two selected publications share a derived
\* work key (work id, else DOI, else normalized title), on the per-author path
\* and on the fallback path alike; every key of a surviving source row is
\* kept, and the row kept for a key is the first surviving row with that key
\* in source order.
C22_FocusedSelectionDeduplicated ==
    Focused =>
        /\ \A i, j \in DOMAIN selectedPubs :
              KeyOf(selectedPubs[i]) = KeyOf(selectedPubs[j]) => i = j
        /\ {KeyOf(selectedPubs[i]) : i \in DOMAIN selectedPubs}
              = {KeyOf(SourceNow[i]) : i \in Survivors}
        /\ \A k \in DOMAIN selectedPubs :
              \E i \in Survivors :
                  /\ SourceNow[i] = selectedPubs[k]
                  /\ \A j \in Survivors : j < i => KeyOf(SourceNow[j]) # KeyOf(SourceNow[i])
        /\ \A k, l \in DOMAIN selectedPubs :
              k < l => \E i, j \in Survivors :
                          i < j /\ SourceNow[i] = selectedPubs[k] /\ SourceNow[j] = selectedPubs[l]

\* two surviving rows share a DOI written in two forms and one of them is
\* dropped, on the per-author path or on the fallback path
C22_Witness ==
    /\ Focused
    /\ Len(selectedPubs) = 1
    /\ KeyOf(selectedPubs[1])[1] = "doi"
    /\ Cardinality(Survivors) = 2
    /\ \E i, j \in Survivors : SourceNow[i].doi # SourceNow[j].doi

\* C24 as stated: with a focused author the selection is taken from the
\* per-author projection, restricted to the rows of the focused author, when
\* that projection is available; otherwise it is taken from the dedup set and
\* holds a work passing the year and topic filters exactly when the work's
\* representative-author field is the focused id, or its union-of-ids field
\* contains the focused id, or its raw authorship id list contains it.
C24_FocusedSelectionSource ==
    Focused =>
        LET named(p) ==
                IF perAuthorData # <<>>
                THEN normalizeID(p.author_openalex_id) = FocusedId
                ELSE \/ normalizeID(p.author_openalex_id) = FocusedId
                     \/ FocusedId \in IdsIn(p.cohort_union_author_ids)
                     \/ FocusedId \in IdsIn(p.authorships_author_id)
        IN /\ \A k \in DOMAIN selectedPubs :
                 selectedPubs[k] \in Range(SourceNow) /\ InWindow(selectedPubs[k])
                                                      /\ named(selectedPubs[k])
           /\ \A i \in DOMAIN SourceNow :
                 (InWindow(SourceNow[i]) /\ named(SourceNow[i]))
                     => \E k \in DOMAIN selectedPubs :
                           KeyOf(selectedPubs[k]) = KeyOf(SourceNow[i])

\* C23: with a focused author the contributing roster is exactly one row, the
\* roster row whose id is the focused id, whatever the categorical selections
\* and the year and topic filters are and whether or not a publication of that
\* author survives.
C23_FocusedRosterIsTheOneRow ==
    Focused =>
        /\ Len(contributingRoster) = 1
        /\ contributingRoster[1] \in Range(rosterData)
        /\ normalizeID(contributingRoster[1].OpenAlexID) = FocusedId
        /\ \A i \in DOMAIN rosterData :
              normalizeID(rosterData[i].OpenAlexID) = FocusedId
                  => rosterData[i] = contributingRoster[1]

\* a focused author whom the selected levels exclude and who has no selected
\* publication left
C23_Witness ==
    /\ Focused
    /\ ~timer
    /\ selectedPubs = <<>>
    /\ ui.level # {}
    /\ Len(contributingRoster) = 1
    /\ contributingRoster[1].Level \notin ui.level

\* the ids the graph holds as nodes and as edge ends
GraphIds ==
    {graph.nodes[i].id : i \in DOMAIN graph.nodes}
        \cup UNION {{graph.edges[i].a, graph.edges[i].b} : i \in DOMAIN graph.edges}

\* C28: whenever a focused author is set, the co-authorship graph of the
\* cycle has no node and no edge, with the authorship file (preferred path)
\* and without it (fallback path), whatever publications are selected.
C28_FocusedGraphEmpty ==
    Focused => graph.nodes = <<>> /\ graph.edges = <<>>

\* a focused author with a selected work that lists a second roster member,
\* by name and in its authorship ids, and no authorship file
C28_Witness ==
    /\ Focused
    /\ ~timer
    /\ authorshipData = <<>>
    /\ graph = NoGraph
    /\ \E k \in DOMAIN selectedPubs :
          /\ Cardinality(IdsOfNames(rosterData, selectedPubs[k].authors)) >= 2
          /\ \E i \in DOMAIN rosterData :
                /\ rosterData[i].OpenAlexID # FocusedId
                /\ rosterData[i].OpenAlexID \in IdsIn(selectedPubs[k].authorships_author_id)

\* the member is an author of a selected work: in an authorship row of the
\* work, in its authorship ids, or by name in its authors cell
CoauthorOfSelected(r) ==
    \E k \in DOMAIN selectedPubs :
        \/ r.OpenAlexID \in IdsIn(selectedPubs[k].authorships_author_id)
        \/ r.OpenAlexID \in IdsOfNames(rosterData, selectedPubs[k].authors)
        \/ \E j \in DOMAIN authorshipData :
              /\ normalizeID(authorshipData[j].id) = normalizeID(selectedPubs[k].id)
              /\ normalizeID(authorshipData[j].author_openalex_id) = r.OpenAlexID

\* roster members passing the categorical filters who are co-authors of a
\* selected work and representative author of none
SilentCoauthors ==
    {i \in DOMAIN rosterData :
        /\ rosterData[i].OpenAlexID # ""
        /\ MatchesSelections(rosterData[i])
        /\ CoauthorOfSelected(rosterData[i])
        /\ SelectedOf(rosterData[i]) = {}}

\* the first institutions tallied for the home institution: publication, row
HomeRorTalliedAt ==
    UNION {{<<k, i>> : i \in {j \in AuthIdx(k) : CohortAt(k, j) /\ AuthOf(k).instRor[j] # ""}} :
           k \in DOMAIN selectedPubs}
RorTally(ror) ==
    Cardinality({t \in HomeRorTalliedAt : AuthOf(t[1]).instRor[t[2]] = ror})

\* C27: in unfocused mode a roster member who passes every categorical
\* filter and is a co-author of a selected work, but the representative
\* author of no selected publication, is not in the contributing roster; no
\* node and no edge end of the graph is that member, the home country and
\* the home institution are the maxima of tallies that leave the member's
\* authorships out, and the series counts only what the rules credit when
\* the member's authorships are not cohort authorships.
C27_SilentCoauthorLeftOut ==
    (Unfocused /\ ~timer) =>
        \A s \in SilentCoauthors :
            /\ rosterData[s] \notin Range(contributingRoster)
            /\ rosterData[s].OpenAlexID \notin RosterIds
            /\ rosterData[s].OpenAlexID \notin GraphIds
            /\ \A c \in {t.c : t \in TalliedAt} : CohortTally(c) <= CohortTally(homeISO3)
            /\ TalliedAt = {} => homeISO3 = "CAN"
            /\ \A t \in HomeRorTalliedAt :
                  RorTally(AuthOf(t[1]).instRor[t[2]]) <= RorTally(partners.homeROR)
            /\ \A c \in Range(CountryOrder) :
                  SeriesCount(c) =
                      Cardinality({k \in DOMAIN selectedPubs :
                          \/ CohortFLOn(k) /\ c \in IntlCountriesOn(k)
                          \/ CohortMOn(k) /\ c \in IntlFLCountriesOn(k)})

\* a member admitted by the selects who wrote a selected work with its
\* representative author and whose authorship carries a country and an
\* institution
C27_Witness ==
    /\ Unfocused /\ ~timer
    /\ \E s \in SilentCoauthors : \E k \in DOMAIN selectedPubs : \E i \in AuthIdx(k) :
          /\ AuthOf(k).ids[i] = rosterData[s].OpenAlexID
          /\ AuthOf(k).countries[i] # "" /\ AuthOf(k).instRor[i] # ""
          /\ Len(contributingRoster) = 1
          /\ graph = NoGraph

----------------------------------------------------------------------------
(* Claim about the partner metadata (checked under SpecPartners) *)

\* the publications that credit the institution
CreditingOn(ror) ==
    {k \in DOMAIN selectedPubs :
        ror \in Range(creditedThisCohort(AuthOf(k), CohortNow, partners.homeROR))}

\* the name and the country publication k carries for the institution
NameOn(k, ror) == MetaAt(AuthOf(k), "instName", ror)
CountryOn(k, ror) == MetaAt(AuthOf(k), "instCountry3", ror)

FirstOf(K) == CHOOSE k \in K : \A l \in K : k <= l

\* C25 as stated: the name and the country of a ranked partner are backfilled;
\* when the first publication crediting the partner carries no name (no
\* country) for it and a later crediting publication does, the ranking entry
\* ends up with the name (country) of the first later publication that
\* carries one.
C25_MetadataBackfilled ==
    rendered =>
        \A x \in DOMAIN partners.rows :
            LET ror == partners.rows[x].ror
                named == {k \in CreditingOn(ror) : NameOn(k, ror) # ""}
                located == {k \in CreditingOn(ror) : CountryOn(k, ror) # ""}
            IN /\ named # {} => partners.rows[x].name = NameOn(FirstOf(named), ror)
               /\ located # {} => partners.rows[x].country = CountryOn(FirstOf(located), ror)

----------------------------------------------------------------------------
(* Claims about the event handlers (checked under SpecLive) *)

\* C30: a click on Reset, whatever selections, years, topic text, legend
\* clicks and focus clicks came before it, leaves the filter state (no focused
\* author, default years, empty topic, default type set, default appointment
\* selection, no other selection), the contributing roster, the selected
\* publications and the publication list exactly as the first update() left
\* them; a click on Reset in that state changes none of them, nor the graph,
\* the home country, the international series and the partner ranking.
C30_ResetRestoresInitialLoad ==
    [][ResetClick =>
          /\ View' = firstUpdate
          /\ focusedAuthorID' = "" /\ activeTypes' = DEFAULT_TYPE_SET
          /\ ui'.topic = <<>> /\ ui'.year_min = 2021 /\ ui'.year_max = 2025
          /\ ui'.level = {} /\ ui'.category = {} /\ ui'.research_group = {}
          /\ ui'.appointment = {"Full-time"}
          /\ (View = firstUpdate =>
                 UNCHANGED <<ui, focusedAuthorID, activeTypes, contributingRoster,
                             selectedPubs, pubsForList, graph, homeISO3, intlSeries,
                             partners>>)]_vars

\* a state Reset is clicked in: a level selected, the upper year lowered, a
\* topic typed, the data sets switched on in the legend, an author focused,
\* and lists that differ from those of the first update()
C30_Witness ==
    /\ rendered
    /\ ui.level # {} /\ ui.year_max # 2025 /\ ui.topic # <<>>
    /\ focusedAuthorID # "" /\ activeTypes # DEFAULT_TYPE_SET
    /\ selectedPubs # firstUpdate.selectedPubs
    /\ pubsForList # firstUpdate.pubsForList
    /\ contributingRoster # firstUpdate.contributingRoster

\* the lists are the ones update() makes of the inputs as they are now
Fresh ==
    /\ \E r \in {applyFilters(rosterData, pubData, perAuthorData, ui, focusedAuthorID)} :
          /\ contributingRoster = r.contributingRoster
          /\ selectedPubs = r.selectedPubs
    /\ activeTypes # NullTypes
    /\ pubsForList = pubsOfTypes(selectedPubs, activeTypes)

\* the same of the state a step ends in
FreshNext ==
    /\ \E r \in {applyFilters(rosterData', pubData', perAuthorData', ui', focusedAuthorID')} :
          /\ contributingRoster' = r.contributingRoster
          /\ selectedPubs' = r.selectedPubs
    /\ activeTypes' # NullTypes
    /\ pubsForList' = pubsOfTypes(selectedPubs', activeTypes')

\* the handlers bound to update itself: selects, year boxes, author links,
\* legend entries, the reset button
Immediate ==
    \/ \E S \in LiveLevels : SelectChange("level", S)
    \/ \E y \in YearInputs : YearInput("year_max", y)
    \/ \E i \in 1..Len(RosterFile) : FocusClick(i)
    \/ \E t \in LegendInputs : LegendClick(t) \/ LegendDoubleClick(t)
    \/ ResetClick

\* a keystroke in the topic box
Keystroke == \E q \in LiveTopics : TopicInput(q)

\* C26: every change of a select, a year box, the focus, the legend or by the
\* reset button is followed in the same step by a finished update() on the
\* values as they then are; a keystroke in the topic box runs no update() and
\* leaves one timer pending, however many keystrokes came before it; the timer
\* fires once, clears itself and runs update() on the inputs as they are when it
\* fires (after a reset or a focus click in between, on those); so whenever no
\* timer is pending the lists are those of the current inputs, and from every
\* state of the loaded page a state without pending timer and with lists
\* computed from the current inputs is eventually reached.
C26_ChangesFollowedByUpdate ==
    /\ [][Immediate => FreshNext /\ timer' = timer]_vars
    /\ [][Keystroke =>
             /\ timer'
             /\ UNCHANGED <<contributingRoster, selectedPubs, pubsForList, graph,
                            homeISO3, intlSeries, partners, embedding>>]_vars
    /\ [][TimerFire => ~timer' /\ FreshNext]_vars
    /\ [](rendered /\ ~timer => Fresh)
    /\ (rendered ~> (~timer /\ Fresh))

\* a topic typed and not yet applied: the timer is pending and the lists are
\* still those of the text before
C26_Witness ==
    /\ rendered
    /\ timer
    /\ ui.topic # <<>>
    /\ ~Fresh

====
